---- MODULE Spec2Model ----
(***************************************************************************)
(* Model of the tdarr audio flow plugins:                                  *)
(*   csd  - Create Stereo Downmix          (createStereoDownmix/index.js)  *)
(*   nat  - Normalize Audio Titles         (normalizeAudioTitles/index.js) *)
(*   pacA - Process Audio Complete, flow copy   (part_000 lines 1-579)     *)
(*   pacB - Process Audio Complete, second copy (part_000 lines 581-1150)  *)
(*   chk  - Check Main Audio Stream Channels    (part_000 lines 1152-1377) *)
(*                                                                         *)
(* Two state machines share the module.  The commit protocol (lock         *)
(* marker, transcoder run, verification, backup / swap / restore) is       *)
(* modelled one file-system call per step, for one or several workers on   *)
(* the same target.  The planning functions (main track, decisions,        *)
(* ordering, titles) are operators applied to bounded stream lists.        *)
(***************************************************************************)
EXTENDS Integers, Sequences, FiniteSets, TLC

\* ------------------------------------------------------------------ bounds
NumWorkers == 3
MaxTicks == 1
MaxFaults == 4
LockFaults == 1

\* ------------------------------------------------------- program constants
\* acquireLock: stale after 2 * 60 * 60 * 1000 ms
StaleMs == 7200000
\* plugin: acquireLock(fs, lockFile, 30000, spawn)
LockTimeoutMs == 30000
\* spawnSync('sleep', ['0.5'])
SleepMs == 500

Workers == 1..NumWorkers
Plugins == {"csd", "nat", "pacA", "pacB"}
\* what the analysis phase of a run finds in the job it was handed
ProbeCases == {"process", "noProbe", "noAudio", "badChannels", "stereo", "noop"}

VARIABLES
    plug,          \* the plugin every worker of this behaviour runs
    probe,         \* what the probe data of the target leads the analysis to
    active,        \* the workers that run
    now,           \* Date.now(), ms since the first worker was started
    ticks,         \* how many times the clock was advanced
    faultsLeft,    \* failures the environment may still inject
    lock,          \* the lock marker file: present, creator, mtime
    input,         \* content at the original file path
    temp,          \* temp[w]: content at w's temp output path
    backup,        \* backup[w]: content at w's backup path
    filesToCleanup,\* filesToCleanup[w]: csd's list of paths cleanup deletes
    pc,            \* pc[w]: where worker w is in the plugin
    start,         \* start[w]: acquireLock's start time
    outputNumber,  \* outputNumber[w]: 0 until the plugin returned, then 1 or 2
    outputFile,    \* outputFile[w]: which file reference the plugin returned
    jobLog,        \* jobLog[w]: the kinds of log entries written
    hist           \* hist[w]: what w did and what the environment answered

protoVars == <<plug, probe, active, now, ticks, faultsLeft, lock, input, temp,
               backup, filesToCleanup, pc, start, outputNumber, outputFile,
               jobLog, hist>>


VARIABLES
    probed,         \* the streams ffprobe reported for the file, in stream order
    current,        \* the streams of the file as the passes leave it
    policy,         \* the inputs of Process Audio Complete
    analysis,       \* what each plugin's analysis of the probed streams found
    passes          \* one record per pass of Process Audio Complete so far

planVars == <<probed, current, policy, analysis, passes>>

VARIABLES
    call            \* one call of one of the plugins' functions: its name, its
                    \* arguments and, once it has returned, what it returned

vars == <<protoVars, planVars, call>>

NoCall == [fn |-> "", done |-> FALSE]

NoLock == [present |-> FALSE, owner |-> 0, mtime |-> 0]
Marker(w, t) == [present |-> TRUE, owner |-> w, mtime |-> t]

NoHist == [sawLock |-> NoLock, sawInput |-> "", acquired |-> FALSE, acqAt |-> 0,
           released |-> FALSE,
           ffmpegRuns |-> 0, ffres |-> "", produced |-> "", reprobe |-> "",
           inputOps |-> 0, swaps |-> 0, restores |-> 0,
           swapFailed |-> FALSE, restoreFailed |-> FALSE, cause |-> ""]

\* the environment's choice at a call that can fail: TRUE is a failure
Faults == IF faultsLeft > 0 THEN {FALSE, TRUE} ELSE {FALSE}
Spend(f) == IF f THEN faultsLeft - 1 ELSE faultsLeft

\* ------------------------------------------------------------- lock marker
\* acquireLock: Date.now() - stat.mtimeMs > 2 * 60 * 60 * 1000
IsStale(lk, t) == t - lk.mtime > StaleMs

\* a loop condition that never ends the loop
WithinTimeoutAlways(t, s) == TRUE

\* acquireLock: while (Date.now() - start < timeoutMs)
WithinTimeout(t, s) == t - s < LockTimeoutMs

\* a release that leaves the marker where it is
ReleaseLockSkipped(lk) == lk

\* releaseLock: fs.unlinkSync(lockFile), whoever created the marker; errors ignored
ReleaseLock(lk) == NoLock

\* acquireLock's unlink of a marker it found stale: same path, same call
UnlinkStale(lk) == NoLock

\* safeUnlink / try { fs.unlinkSync(p) } catch: the path holds nothing afterwards
SafeUnlink(c) == "none"

\* cleanup(): every path in filesToCleanup goes through safeUnlink
CleanupFile(name, c, list) == IF name \in list THEN SafeUnlink(c) ELSE c

\* which reference the plugin hands back: args.inputFileObj, a copy of it with
\* _id = inputFile, or (pacA) a new object naming the work-directory output
OrigRef == "inputFileObj"
ReplacedRef == "inputFileObj+_id"
WorkRef == "outputFilePath"

\* ----------------------------------------------------------------- actions
\* return {outputFileObj: ref, outputNumber: n} without touching any file
Return(w, n, ref, why) ==
    /\ pc' = [pc EXCEPT ![w] = "done"]
    /\ outputNumber' = [outputNumber EXCEPT ![w] = n]
    /\ outputFile' = [outputFile EXCEPT ![w] = ref]
    /\ hist' = [hist EXCEPT ![w].cause = why]

\* csd: return cleanup(2), with temp content t, backup content b and the cleanup
\* list as they are at that point
\* others: try { fs.unlinkSync(tempFile) } catch, then return outputNumber 2
FailWith(w, t, b, list, why, h) ==
    /\ pc' = [pc EXCEPT ![w] = "done"]
    /\ outputNumber' = [outputNumber EXCEPT ![w] = 2]
    /\ outputFile' = [outputFile EXCEPT ![w] = OrigRef]
    /\ filesToCleanup' = [filesToCleanup EXCEPT ![w] = list]
    /\ IF plug = "csd"
       THEN /\ lock' = ReleaseLock(lock)
            /\ temp' = [temp EXCEPT ![w] = CleanupFile("temp", t, list)]
            /\ backup' = [backup EXCEPT ![w] = CleanupFile("backup", b, list)]
            /\ hist' = [hist EXCEPT ![w] = [h EXCEPT !.cause = why, !.released = TRUE]]
       ELSE /\ lock' = lock
            /\ temp' = [temp EXCEPT ![w] = SafeUnlink(t)]
            /\ backup' = [backup EXCEPT ![w] = b]
            /\ hist' = [hist EXCEPT ![w] = [h EXCEPT !.cause = why]]

\* plugin entry up to the lock acquisition (csd) or the analysis (others); the
\* workers run the same code, so they are numbered in the order they start
Begin(w) ==
    /\ w \in active
    /\ pc[w] = "idle"
    /\ \A v \in active : v < w => pc[v] # "idle"
    /\ pc' = [pc EXCEPT ![w] = IF plug = "csd" THEN "acq_try" ELSE "probe"]
    /\ start' = [start EXCEPT ![w] = now]
    /\ hist' = [hist EXCEPT ![w].sawLock = lock,
                             ![w].sawInput = IF plug = "csd" THEN input ELSE ""]
    /\ UNCHANGED <<plug, probe, active, now, ticks, faultsLeft, lock, input, temp,
                   backup, filesToCleanup, outputNumber, outputFile, jobLog>>

\* acquireLock: the loop condition and fs.writeFileSync(lockFile, ..., {flag: 'wx'})
TryCreate(w) ==
    /\ w \in active
    /\ pc[w] = "acq_try"
    /\ \E f \in Faults :
         /\ faultsLeft' = Spend(f)
         /\ IF ~WithinTimeout(now, start[w])
            THEN /\ ~f
                 /\ Return(w, 2, OrigRef, "lockTimeout")
                 /\ lock' = lock
            ELSE IF lock.present
            THEN /\ ~f
                 /\ pc' = [pc EXCEPT ![w] = "acq_stat"]
                 /\ UNCHANGED <<lock, outputNumber, outputFile, hist>>
            ELSE IF f
            THEN /\ Return(w, 2, OrigRef, "lockError")
                 /\ lock' = lock
            ELSE /\ lock' = Marker(w, now)
                 /\ pc' = [pc EXCEPT ![w] = "probe"]
                 /\ hist' = [hist EXCEPT ![w].acquired = TRUE, ![w].acqAt = now]
                 /\ UNCHANGED <<outputNumber, outputFile>>
    /\ UNCHANGED <<plug, probe, active, now, ticks, input, temp, backup,
                   filesToCleanup, start, jobLog>>

\* acquireLock, EEXIST branch: fs.statSync(lockFile) and the staleness test
AcqStat(w) ==
    /\ w \in active
    /\ pc[w] = "acq_stat"
    /\ pc' = [pc EXCEPT ![w] = IF ~lock.present THEN "acq_try"
                               ELSE IF IsStale(lock, now) THEN "acq_unlink"
                               ELSE "acq_sleep"]
    /\ UNCHANGED <<plug, probe, active, now, ticks, faultsLeft, lock, input, temp,
                   backup, filesToCleanup, start, outputNumber, outputFile, jobLog, hist>>

\* acquireLock, stale branch: fs.unlinkSync(lockFile); continue
AcqUnlink(w) ==
    /\ w \in active
    /\ pc[w] = "acq_unlink"
    /\ lock' = UnlinkStale(lock)
    /\ pc' = [pc EXCEPT ![w] = "acq_try"]
    /\ UNCHANGED <<plug, probe, active, now, ticks, faultsLeft, input, temp,
                   backup, filesToCleanup, start, outputNumber, outputFile, jobLog, hist>>

\* acquireLock, held branch: spawnSync('sleep', ['0.5']), then the loop again
AcqSleep(w) ==
    /\ w \in active
    /\ pc[w] = "acq_sleep"
    /\ ticks < MaxTicks
    /\ now' = now + SleepMs
    /\ ticks' = ticks + 1
    /\ pc' = [pc EXCEPT ![w] = "acq_try"]
    /\ UNCHANGED <<plug, probe, active, faultsLeft, lock, input, temp,
                   backup, filesToCleanup, start, outputNumber, outputFile, jobLog, hist>>

\* time passes while the workers are busy (a long transcode, a stalled process)
Advance ==
    /\ ticks < MaxTicks
    /\ \E w \in active : pc[w] # "done"
    /\ \E d \in {LockTimeoutMs, StaleMs + 1} : now' = now + d
    /\ ticks' = ticks + 1
    /\ UNCHANGED <<plug, probe, active, faultsLeft, lock, input, temp, backup,
                   filesToCleanup, pc, start, outputNumber, outputFile, jobLog, hist>>

\* ------------------------------------------------- analysis, transcode, verify
\* the analysis phase's exits: csd lines 336-399, nat 298-412, pacA 235-294 and
\* 422-451, pacB 801-861 and 983-1009
EarlyExit(k, p) ==
    IF k = "csd" THEN p \in {"noProbe", "noAudio", "badChannels", "stereo"}
    ELSE p \in {"noProbe", "noAudio", "noop"}

\* nat answers 1 when every title is already right; every other early exit is 2
EarlyExitNumber(k, p) == IF k = "nat" /\ p = "noop" THEN 1 ELSE 2

Probe(w) ==
    /\ w \in active
    /\ pc[w] = "probe"
    /\ IF EarlyExit(plug, probe)
       THEN IF plug = "csd"
            THEN FailWith(w, temp[w], backup[w], filesToCleanup[w], probe, hist[w])
            ELSE /\ Return(w, EarlyExitNumber(plug, probe), OrigRef, probe)
                 /\ UNCHANGED <<lock, temp, backup, filesToCleanup>>
       ELSE /\ pc' = [pc EXCEPT ![w] = "ffmpeg"]
            /\ UNCHANGED <<lock, temp, backup, filesToCleanup, outputNumber,
                           outputFile, hist>>
    /\ UNCHANGED <<plug, probe, active, now, ticks, faultsLeft, input, start, jobLog>>

\* what a transcoder run can leave behind: exit status and the temp output
FfmpegOutcomes(k) ==
    {<<"ok", "new">>, <<"ok", "small">>, <<"ok", "none">>,
     <<"nonzero", "none">>, <<"nonzero", "partial">>, <<"timeout", "partial">>}
    \cup (IF k = "csd" THEN {<<"ok", "wrong">>} ELSE {})

\* result.status !== 0 (a timeout leaves status null)
FfmpegFailed(r) == r # "ok"

\* spawn(ffmpegCli, spawnArgs, {timeout}) / cli.runCli(), and the status test
Transcode(w) ==
    /\ w \in active
    /\ pc[w] = "ffmpeg"
    /\ \E o \in FfmpegOutcomes(plug) :
         LET r == o[1]
             t == o[2]
             f == o # <<"ok", "new">>
             h == [hist[w] EXCEPT !.ffmpegRuns = @ + 1, !.ffres = r, !.produced = t]
         IN  /\ f => faultsLeft > 0
             /\ r = "ok" => input \in {"orig", "new"}
             /\ faultsLeft' = Spend(f)
             /\ IF FfmpegFailed(r)
                THEN FailWith(w, t, backup[w], filesToCleanup[w], "ffmpeg", h)
                ELSE /\ temp' = [temp EXCEPT ![w] = t]
                     /\ pc' = [pc EXCEPT ![w] = "verify"]
                     /\ hist' = [hist EXCEPT ![w] = h]
                     /\ UNCHANGED <<lock, backup, filesToCleanup, outputNumber, outputFile>>
    /\ UNCHANGED <<plug, probe, active, now, ticks, input, start, jobLog>>

\* fs.statSync(inputFile) and fs.statSync(tempFile) both succeed
StatsOk(i, t) == i # "none" /\ t # "none"

\* a size check that accepts every output
SizeOkAlways(t) == TRUE

\* outputStats.size >= the plugin's lower bound
SizeOk(t) == t # "small"

\* csd: ffprobe ran and the last audio stream is 2-channel aac
ReprobeOk(t, pr) == pr = "ran" /\ t = "new"

\* the verification of the transcoder's output: csd 474-558, nat 474-498,
\* pacA 553-577, pacB 1102-1117
Verify(w) ==
    /\ w \in active
    /\ pc[w] = "verify"
    /\ \E pr \in {"ran", "exit", "parse"} :
         LET reach == plug = "csd" /\ StatsOk(input, temp[w]) /\ SizeOk(temp[w])
             f == pr # "ran"
             h == [hist[w] EXCEPT !.reprobe = IF reach THEN pr ELSE ""]
         IN  /\ f => (faultsLeft > 0 /\ reach)
             /\ faultsLeft' = Spend(f)
             /\ IF ~StatsOk(input, temp[w])
                THEN FailWith(w, temp[w], backup[w], filesToCleanup[w], "stat", h)
                ELSE IF ~SizeOk(temp[w])
                THEN FailWith(w, temp[w], backup[w], filesToCleanup[w], "size", h)
                ELSE IF plug = "csd" /\ ~ReprobeOk(temp[w], pr)
                THEN FailWith(w, temp[w], backup[w], filesToCleanup[w], "reprobe", h)
                ELSE IF plug = "pacA"
                THEN /\ Return(w, 1, WorkRef, "processed")
                     /\ UNCHANGED <<lock, temp, backup, filesToCleanup>>
                ELSE /\ pc' = [pc EXCEPT ![w] = "backup"]
                     /\ hist' = [hist EXCEPT ![w] = h]
                     /\ UNCHANGED <<lock, temp, backup, filesToCleanup, outputNumber,
                                    outputFile>>
    /\ UNCHANGED <<plug, probe, active, now, ticks, input, start, jobLog>>

\* ------------------------------------------------------ backup, swap, restore
\* fs.renameSync(src, dst) that succeeded: dst now holds what src held
Renamed(src, dst) == src

\* fs.copyFileSync(src, dst) that succeeded
Copied(src, dst) == src

\* a restore that leaves the original path as the failed swap left it
RestoredNothing(b, i) == i

\* the restore in the catch (moveErr) block, when its rename succeeded:
\* the original path holds the backup's content again
Restored(b, i) == Renamed(b, i)

\* where a failure inside the move block leads: catch (moveErr) { restore }
OnMoveError == "restore"

\* csd 608, nat 523: the log entry of a failed restore; pacB 1134 logs nothing
RestoreFailureLog(k) == IF k \in {"csd", "nat"} THEN {"CRITICAL"} ELSE {}

\* step 1: fs.renameSync(inputFile, backupFile); csd then tracks the backup
Backup(w) ==
    /\ w \in active
    /\ pc[w] = "backup"
    /\ \E f \in Faults :
         LET h == [hist[w] EXCEPT !.inputOps = @ + 1]
         IN  /\ f => input # "none"
             /\ faultsLeft' = Spend(f)
             /\ IF f \/ input = "none"
                THEN /\ FailWith(w, temp[w], backup[w], filesToCleanup[w], "backup", h)
                     /\ input' = input
                ELSE /\ backup' = [backup EXCEPT ![w] = Renamed(input, backup[w])]
                     /\ input' = "none"
                     /\ filesToCleanup' = [filesToCleanup EXCEPT ![w] =
                            IF plug = "csd" THEN @ \cup {"backup"} ELSE @]
                     /\ pc' = [pc EXCEPT ![w] = "swap"]
                     /\ hist' = [hist EXCEPT ![w] = h]
                     /\ UNCHANGED <<lock, temp, outputNumber, outputFile>>
    /\ UNCHANGED <<plug, probe, active, now, ticks, start, jobLog>>

\* step 2: fs.renameSync(tempFile, inputFile); a failure falls to the copy
Swap(w) ==
    /\ w \in active
    /\ pc[w] = "swap"
    /\ \E f \in Faults :
         /\ faultsLeft' = Spend(f)
         /\ hist' = [hist EXCEPT ![w].inputOps = @ + 1, ![w].swaps = @ + 1]
         /\ IF f
            THEN /\ pc' = [pc EXCEPT ![w] = "copy"]
                 /\ UNCHANGED <<input, temp>>
            ELSE /\ input' = Renamed(temp[w], input)
                 /\ temp' = [temp EXCEPT ![w] = "none"]
                 /\ pc' = [pc EXCEPT ![w] = "rmbackup"]
    /\ UNCHANGED <<plug, probe, active, now, ticks, lock, backup, filesToCleanup,
                   start, outputNumber, outputFile, jobLog>>

\* catch (renameErr): fs.copyFileSync(tempFile, inputFile); fs.unlinkSync(tempFile)
Copy(w) ==
    /\ w \in active
    /\ pc[w] = "copy"
    /\ \E o \in {"ok", "copyFailed", "copyPartial", "unlinkFailed"} :
         LET f == o # "ok"
         IN  /\ f => faultsLeft > 0
             /\ faultsLeft' = Spend(f)
             /\ input' = CASE o = "copyFailed" -> input
                           [] o = "copyPartial" -> "partial"
                           [] OTHER -> Copied(temp[w], input)
             /\ temp' = [temp EXCEPT ![w] = IF o = "ok" THEN "none" ELSE @]
             /\ pc' = [pc EXCEPT ![w] = IF f THEN OnMoveError ELSE "rmbackup"]
             /\ hist' = [hist EXCEPT ![w].inputOps = @ + 1,
                                     ![w].swapFailed = f]
    /\ UNCHANGED <<plug, probe, active, now, ticks, lock, backup, filesToCleanup,
                   start, outputNumber, outputFile, jobLog>>

\* step 3: csd safeUnlink(backupFile), drop it from the list, releaseLock and
\* return 1; nat / pacB fs.unlinkSync(backupFile) inside the move block
RemoveBackup(w) ==
    /\ w \in active
    /\ pc[w] = "rmbackup"
    /\ \E f \in Faults :
         /\ faultsLeft' = Spend(f)
         /\ backup' = [backup EXCEPT ![w] = IF f THEN @ ELSE "none"]
         /\ IF plug = "csd"
            THEN /\ filesToCleanup' = [filesToCleanup EXCEPT ![w] = @ \ {"backup"}]
                 /\ lock' = ReleaseLock(lock)
                 /\ pc' = [pc EXCEPT ![w] = "done"]
                 /\ outputNumber' = [outputNumber EXCEPT ![w] = 1]
                 /\ outputFile' = [outputFile EXCEPT ![w] = ReplacedRef]
                 /\ hist' = [hist EXCEPT ![w].cause = "processed", ![w].released = TRUE]
            ELSE IF f
            THEN /\ pc' = [pc EXCEPT ![w] = OnMoveError]
                 /\ hist' = [hist EXCEPT ![w].swapFailed = TRUE]
                 /\ UNCHANGED <<filesToCleanup, lock, outputNumber, outputFile>>
            ELSE /\ Return(w, 1, ReplacedRef, "processed")
                 /\ UNCHANGED <<filesToCleanup, lock>>
    /\ UNCHANGED <<plug, probe, active, now, ticks, input, temp, start, jobLog>>

\* step 4, catch (moveErr): csd safeUnlink(inputFile); fs.renameSync(backupFile,
\* inputFile); on failure the CRITICAL entries; then the failure return
Restore(w) ==
    /\ w \in active
    /\ pc[w] = "restore"
    /\ \E o \in {"ok", "renameFailed", "bothFailed"} :
         LET f == o # "ok"
             cleared == IF plug = "csd" /\ o # "bothFailed" THEN SafeUnlink(input) ELSE input
             h == [hist[w] EXCEPT !.inputOps = @ + 1, !.restores = @ + 1,
                                  !.restoreFailed = f]
             b == IF f THEN backup[w] ELSE "none"
             list == IF plug = "csd" THEN filesToCleanup[w] \ {"backup"}
                     ELSE filesToCleanup[w]
         IN  /\ f => faultsLeft > 0
             /\ o = "bothFailed" => plug = "csd"
             /\ faultsLeft' = Spend(f)
             /\ input' = IF f THEN cleared ELSE Restored(backup[w], cleared)
             /\ jobLog' = [jobLog EXCEPT ![w] =
                              @ \cup (IF f THEN RestoreFailureLog(plug) ELSE {})]
             /\ FailWith(w, temp[w], b, list, "swap", h)
    /\ UNCHANGED <<plug, probe, active, now, ticks, start>>

Next ==
    \/ \E w \in Workers : Begin(w) /\ UNCHANGED <<planVars, call>>
    \/ \E w \in Workers : TryCreate(w) /\ UNCHANGED <<planVars, call>>
    \/ \E w \in Workers : AcqStat(w) /\ UNCHANGED <<planVars, call>>
    \/ \E w \in Workers : AcqUnlink(w) /\ UNCHANGED <<planVars, call>>
    \/ \E w \in Workers : AcqSleep(w) /\ UNCHANGED <<planVars, call>>
    \/ Advance /\ UNCHANGED <<planVars, call>>
    \/ \E w \in Workers : Probe(w) /\ UNCHANGED <<planVars, call>>
    \/ \E w \in Workers : Transcode(w) /\ UNCHANGED <<planVars, call>>
    \/ \E w \in Workers : Verify(w) /\ UNCHANGED <<planVars, call>>
    \/ \E w \in Workers : Backup(w) /\ UNCHANGED <<planVars, call>>
    \/ \E w \in Workers : Swap(w) /\ UNCHANGED <<planVars, call>>
    \/ \E w \in Workers : Copy(w) /\ UNCHANGED <<planVars, call>>
    \/ \E w \in Workers : RemoveBackup(w) /\ UNCHANGED <<planVars, call>>
    \/ \E w \in Workers : Restore(w) /\ UNCHANGED <<planVars, call>>

\* the planning variables while no plan is being made
NoPolicy == [createDDP |-> FALSE, createStereo |-> FALSE, defaultLanguage |-> "eng",
             languagePriority |-> <<>>, codecPriority |-> <<>>]
NoAnalysis == [done |-> FALSE]

\* the state before any worker starts: the target holds the original, and the
\* work directory may hold a lock marker a crashed run left, fresh or stale
InitWith(ws, budget) ==
    /\ plug \in Plugins
    /\ probe \in ProbeCases
    /\ active = ws
    /\ now = 0
    /\ ticks = 0
    /\ faultsLeft = budget
    /\ lock \in {NoLock, Marker(0, 0), Marker(0, 0 - (StaleMs + 1))}
    /\ input = "orig"
    /\ temp = [w \in Workers |-> "none"]
    /\ backup = [w \in Workers |-> "none"]
    /\ filesToCleanup = [w \in Workers |-> {"temp"}]
    /\ pc = [w \in Workers |-> "idle"]
    /\ start = [w \in Workers |-> 0]
    /\ outputNumber = [w \in Workers |-> 0]
    /\ outputFile = [w \in Workers |-> ""]
    /\ jobLog = [w \in Workers |-> {}]
    /\ hist = [w \in Workers |-> NoHist]
    /\ probed = <<>>
    /\ current = <<>>
    /\ policy = NoPolicy
    /\ analysis = NoAnalysis
    /\ passes = <<>>
    /\ call = NoCall

\* one run of a plugin on its own
CommitInit == InitWith({1}, MaxFaults)
CommitSpec == CommitInit /\ [][Next]_vars

\* several workers handed the same target
LockInit == InitWith(Workers, LockFaults)
LockSpec == LockInit /\ [][Next]_vars

\* ------------------------------------------- acquireLock against its environment
\* one call of acquireLock while other processes create and delete the marker
\* as they like and the wall clock runs on its own

\* the clock stops being advanced once every loop condition is false
MaxClockMs == LockTimeoutMs + 2 * SleepMs

ClockAfter(t, d) == IF t + d > MaxClockMs THEN MaxClockMs ELSE t + d

\* lines 214-218: fs.unlinkSync(lockFile) throws, the error is swallowed; continue
AcqUnlinkFails(w) ==
    /\ w \in active
    /\ pc[w] = "acq_unlink"
    /\ pc' = [pc EXCEPT ![w] = "acq_try"]
    /\ UNCHANGED <<plug, probe, active, now, ticks, faultsLeft, lock, input, temp,
                   backup, filesToCleanup, start, outputNumber, outputFile, jobLog, hist>>

\* line 226: spawnSync('sleep', ['0.5']), half a second of wall clock
AcqSleepClock(w) ==
    /\ w \in active
    /\ pc[w] = "acq_sleep"
    /\ now' = ClockAfter(now, SleepMs)
    /\ pc' = [pc EXCEPT ![w] = "acq_try"]
    /\ UNCHANGED <<plug, probe, active, ticks, faultsLeft, lock, input, temp,
                   backup, filesToCleanup, start, outputNumber, outputFile, jobLog, hist>>

Acquiring(w) == pc[w] \in {"acq_try", "acq_stat", "acq_unlink", "acq_sleep"}

\* another process's fs.writeFileSync(lockFile, ..., {flag: 'wx'}) (line 206),
\* or a marker left long ago
OthersCreate ==
    /\ \E w \in active : Acquiring(w)
    /\ ~lock.present
    /\ \E t \in {now, now - (StaleMs + 1)} : lock' = Marker(0, t)
    /\ UNCHANGED <<plug, probe, active, now, ticks, faultsLeft, input, temp, backup,
                   filesToCleanup, pc, start, outputNumber, outputFile, jobLog, hist>>

\* another process's fs.unlinkSync(lockFile) (lines 215, 238)
OthersDelete ==
    /\ \E w \in active : Acquiring(w)
    /\ lock.present
    /\ lock' = NoLock
    /\ UNCHANGED <<plug, probe, active, now, ticks, faultsLeft, input, temp, backup,
                   filesToCleanup, pc, start, outputNumber, outputFile, jobLog, hist>>

\* Date.now() (lines 201, 203, 213) moves on while a call is in its loop
ClockTick ==
    /\ \E w \in active : Acquiring(w)
    /\ now < MaxClockMs
    /\ now' = ClockAfter(now, SleepMs)
    /\ UNCHANGED <<plug, probe, active, ticks, faultsLeft, lock, input, temp, backup,
                   filesToCleanup, pc, start, outputNumber, outputFile, jobLog, hist>>

\* the next statement of the call of worker w
AcquireStep(w) ==
    \/ TryCreate(w) /\ UNCHANGED <<planVars, call>>
    \/ AcqStat(w) /\ UNCHANGED <<planVars, call>>
    \/ AcqUnlink(w) /\ UNCHANGED <<planVars, call>>
    \/ AcqUnlinkFails(w) /\ UNCHANGED <<planVars, call>>
    \/ AcqSleepClock(w) /\ UNCHANGED <<planVars, call>>

AcquireNext ==
    \/ \E w \in Workers : Begin(w) /\ UNCHANGED <<planVars, call>>
    \/ \E w \in Workers : AcquireStep(w)
    \/ OthersCreate /\ UNCHANGED <<planVars, call>>
    \/ OthersDelete /\ UNCHANGED <<planVars, call>>
    \/ ClockTick /\ UNCHANGED <<planVars, call>>

AcquireInit ==
    /\ InitWith({1}, LockFaults)
    /\ plug = "csd"
    /\ probe = "process"

\* the call is a synchronous loop, so its next statement is always executed;
\* the wall clock moves on
AcquireSpec ==
    /\ AcquireInit
    /\ [][AcquireNext]_vars
    /\ \A w \in Workers : WF_vars(AcquireStep(w))
    /\ WF_vars(ClockTick /\ UNCHANGED <<planVars, call>>)

\* ======================================================================
\* Planning: the analysis of the probed streams and the audio plan
\* ======================================================================
\* A probed stream: type (codec_type), codec (codec_name), channels, lang
\* (tags.language, "" when the tag is absent), title (tags.title, "" when
\* absent), profile, def (disposition.default as ffprobe prints it, 0 or 1).
Stream(ty, co, ch, la, ti, pr, d) ==
    [type |-> ty, codec |-> co, channels |-> ch, lang |-> la, title |-> ti,
     profile |-> pr, def |-> d]

VideoStream == Stream("video", "h264", 0, "", "", "", 1)

\* String.prototype.toLowerCase over the strings the stream pools and the
\* language tags use
Lower(str) ==
    CASE str = "DTS" -> "dts"
      [] str = "DCA" -> "dca"
      [] str = "ENG" -> "eng"
      [] str = "FRA" -> "fra"
      [] OTHER -> str

\* String.prototype.toUpperCase over the codec names without a display name
Upper(str) ==
    CASE str = "mp3" -> "MP3"
      [] str = "vorbis" -> "VORBIS"
      [] OTHER -> str

\* the audio streams in stream order (codec_type === 'audio')
IsAudio(st) == st.type = "audio"
AudioOf(sts) == SelectSeq(sts, IsAudio)

\* Array.prototype.indexOf: 0-based, -1 when absent
IndexOf(list, x) ==
    IF \E i \in 1..Len(list) : list[i] = x
    THEN (CHOOSE i \in 1..Len(list) : list[i] = x /\ \A j \in 1..(i - 1) : list[j] # x) - 1
    ELSE -1

\* ------------------------------------------------ part_000 lines 109-207
\* LANGUAGE_MAP[code]; "" stands for undefined
LanguageMap(code) ==
    CASE code \in {"eng", "en"} -> "English"
      [] code \in {"fre", "fra", "fr"} -> "French"
      [] code \in {"spa", "es"} -> "Spanish"
      [] code \in {"ger", "deu", "de"} -> "German"
      [] code \in {"ita", "it"} -> "Italian"
      [] code \in {"jpn", "ja"} -> "Japanese"
      [] code \in {"por", "pt"} -> "Portuguese"
      [] code \in {"rus", "ru"} -> "Russian"
      [] code \in {"chi", "zho", "zh"} -> "Chinese"
      [] code \in {"kor", "ko"} -> "Korean"
      [] code \in {"dut", "nld", "nl"} -> "Dutch"
      [] OTHER -> ""

getLanguageName(code, defaultLang) ==
    IF code = "" \/ code = "und" \/ code = "unk"
    THEN (IF LanguageMap(defaultLang) # "" THEN LanguageMap(defaultLang) ELSE "Unknown")
    ELSE (IF LanguageMap(Lower(code)) # "" THEN LanguageMap(Lower(code)) ELSE code)

\* profile.toLowerCase().indexOf(marker) !== -1, over the profiles the pool uses
ProfileHas(profile, marker) ==
    CASE marker = "joc" -> profile \in {"Dolby Digital Plus + JOC"}
      [] marker = "atmos" -> profile \in {"Dolby TrueHD + Dolby Atmos"}
      [] marker = "ma" -> profile \in {"DTS-HD MA"}
      [] marker = "master" -> FALSE
      [] marker = "hra" -> profile \in {"DTS-HD HRA"}
      [] marker = "x" -> FALSE
      [] marker = "express" -> FALSE
      [] OTHER -> FALSE

getCodecDisplayName(codecName, profile) ==
    LET codec == Lower(codecName)
    IN  CASE codec = "eac3" -> (IF ProfileHas(profile, "joc") THEN "DD+ Atmos" ELSE "DD+")
          [] codec = "ac3" -> "DD"
          [] codec \in {"dts", "dca"} ->
                (IF ProfileHas(profile, "ma") \/ ProfileHas(profile, "master") THEN "DTS-HD MA"
                 ELSE IF ProfileHas(profile, "hra") THEN "DTS-HD HRA"
                 ELSE IF ProfileHas(profile, "x") /\ ~ProfileHas(profile, "express") THEN "DTS:X"
                 ELSE "DTS")
          [] codec = "truehd" -> (IF ProfileHas(profile, "atmos") THEN "TrueHD Atmos" ELSE "TrueHD")
          [] codec = "aac" -> "AAC"
          [] codec = "flac" -> "FLAC"
          [] codec = "opus" -> "Opus"
          [] codec \in {"pcm_s16le", "pcm_s24le"} -> "PCM"
          [] OTHER -> Upper(codec)

\* a stream whose probe entry has no channels property: s.channels is
\* undefined, which is no number, is falsy, equals no number and compares
\* false with every number
Absent == -99
IsNumber(channels) == channels # Absent

\* channels + 'ch' for the counts without a name
ChannelsCh(channels) ==
    IF IsNumber(channels) THEN ToString(channels) \o "ch" ELSE "undefinedch"

getChannelDisplay(channels, profile) ==
    IF ProfileHas(profile, "joc") \/ ProfileHas(profile, "atmos") THEN "Atmos"
    ELSE CASE channels = 8 -> "7.1"
           [] channels = 7 -> "6.1"
           [] channels = 6 -> "5.1"
           [] channels = 2 -> "Stereo"
           [] channels = 1 -> "Mono"
           [] OTHER -> ChannelsCh(channels)

\* first copy, lines 183-201: 2-letter and terminology codes to bibliographic
normalizeLangCode(code) ==
    IF code = "" THEN "und"
    ELSE LET c == Lower(code)
         IN  CASE c = "en" -> "eng" [] c = "fr" -> "fre" [] c = "es" -> "spa"
               [] c = "de" -> "ger" [] c = "it" -> "ita" [] c = "pt" -> "por"
               [] c = "nl" -> "dut" [] c = "sv" -> "swe" [] c = "no" -> "nor"
               [] c = "da" -> "dan" [] c = "fi" -> "fin" [] c = "pl" -> "pol"
               [] c = "cs" -> "cze" [] c = "ja" -> "jpn" [] c = "ko" -> "kor"
               [] c = "zh" -> "chi" [] c = "ar" -> "ara" [] c = "ru" -> "rus"
               [] c = "uk" -> "ukr"
               [] c = "fra" -> "fre" [] c = "deu" -> "ger" [] c = "nld" -> "dut"
               [] c = "zho" -> "chi" [] c = "ces" -> "cze" [] c = "ron" -> "rum"
               [] OTHER -> c

\* second copy, lines 761-769
normalizeLangCodeB(code) ==
    IF code = "" THEN "und"
    ELSE LET c == Lower(code)
         IN  CASE c = "fra" -> "fre" [] c = "deu" -> "ger" [] c = "zho" -> "chi"
               [] c = "nld" -> "dut" [] OTHER -> c

NormLang(k, code) == IF k = "pacB" THEN normalizeLangCodeB(code) ELSE normalizeLangCode(code)

\* ------------------------------------------------ main track selection
\* the entries of audioStreams (part_000 lines 259-270), 1-based here:
\* entry i has audioIndex i - 1
AudioEntry(k, st) ==
    [codec |-> st.codec, codecLower |-> Lower(st.codec), channels |-> st.channels,
     language |-> st.lang, normLang |-> NormLang(k, st.lang), profile |-> st.profile,
     title |-> st.title, isDefault |-> (st.def = 1)]

AudioStreams(k, sts) == [i \in 1..Len(AudioOf(sts)) |-> AudioEntry(k, AudioOf(sts)[i])]

\* first copy, lines 277-282: the assignment runs for audio index 0 and for
\* every stream whose disposition.default === 1, so the last of them stays
MainAudioIndexA(aud) ==
    LET hits == {i \in 1..Len(aud) : i = 1 \/ aud[i].isDefault}
    IN  IF hits = {} THEN 0 ELSE (CHOOSE i \in hits : \A j \in hits : j <= i) - 1

\* second copy, lines 846-849: same loop, tracking channels and language only
MainAudioIndexB(aud) ==
    LET hits == {i \in 1..Len(aud) : i = 1 \/ aud[i].isDefault}
    IN  IF hits = {} THEN 0 ELSE (CHOOSE i \in hits : \A j \in hits : j <= i) - 1

\* createStereoDownmix lines 349-377 and the channel check, part_000 lines
\* 1266-1306: the first stream flagged default, else the first audio stream
FirstDefaultOrFirst(aud) ==
    LET flagged == {i \in 1..Len(aud) : aud[i].isDefault}
    IN  IF Len(aud) = 0 THEN -1
        ELSE IF flagged = {} THEN 0
        ELSE (CHOOSE i \in flagged : \A j \in flagged : i <= j) - 1

targetAudioIndex(aud) == FirstDefaultOrFirst(aud)
targetRelativeIndex(aud) == FirstDefaultOrFirst(aud)

\* s.channels || 2 (line 279)
ChannelsOrTwo(ch) == IF ch = 0 \/ ~IsNumber(ch) THEN 2 ELSE ch

\* lines 272-287 and 851-854: an existing stereo track counted as English
hasEnglishStereo(k, aud) ==
    \E i \in 1..Len(aud) :
        /\ aud[i].channels = 2
        /\ \/ aud[i].normLang = "eng"
           \/ (k = "pacB" /\ aud[i].normLang = "en")
           \/ aud[i].language = ""
           \/ aud[i].language = "und"

hasMultichannel(aud) == \E i \in 1..Len(aud) : aud[i].channels > 2
hasDTS(aud) == \E i \in 1..Len(aud) : aud[i].codecLower \in {"dts", "dca"}

\* the analysis of one copy of Process Audio Complete: lines 243-299 (first
\* copy) and 810-865 (second copy)
AnalysisOf(k, aud, pol) ==
    LET mi == IF k = "pacB" THEN MainAudioIndexB(aud) ELSE MainAudioIndexA(aud)
        has == Len(aud) > 0
        mch == IF ~has THEN 0
               ELSE IF k = "pacB" THEN aud[mi + 1].channels
               ELSE ChannelsOrTwo(aud[mi + 1].channels)
        mlang == IF ~has THEN pol.defaultLanguage ELSE aud[mi + 1].normLang
        mcodec == IF ~has THEN "" ELSE aud[mi + 1].codecLower
        mainIsDTS == mcodec \in {"dts", "dca"}
        stereo == hasEnglishStereo(k, aud)
    IN  [audioCount |-> Len(aud),
         mainAudioIndex |-> mi,
         mainAudioChannels |-> mch,
         mainAudioLang |-> mlang,
         mainAudioCodec |-> mcodec,
         hasEnglishStereo |-> stereo,
         needsDDP |-> IF k = "pacB" THEN pol.createDDP /\ hasDTS(aud)
                      ELSE pol.createDDP /\ mainIsDTS,
         needsStereo |-> IF k = "pacB" THEN pol.createStereo /\ hasMultichannel(aud) /\ ~stereo
                         ELSE pol.createStereo /\ mch > 2 /\ ~stereo]

Analysis(k, sts, pol) == AnalysisOf(k, AudioStreams(k, sts), pol)

\* ------------------------------------------------ the downmix filter chain
\* The pan filters by the mix they apply: "mix71" is the pan with 0.25*SL +
\* 0.20*BL + 0.20*LFE, "mix51" the one with 0.30*SL + 0.30*BL + 0.25*LFE,
\* "mix61" the one with 0.30*SL + 0.20*BC + 0.20*LFE, "quad" the one with
\* 0.80*FL + 0.40*SL + 0.40*BL, "centre" is FL = 0.70*FL + 0.70*FC, and
\* "aformat" is aformat=channel_layouts=stereo; "mix61" and "quad" are in
\* Create Stereo Downmix only.
\* Process Audio Complete, lines 168-180
getPanFilter(channels) ==
    IF channels = 8 THEN "mix71"
    ELSE IF channels >= 6 THEN "mix51"
    ELSE IF channels > 2 THEN "centre"
    ELSE "aformat"

\* a chain that limits before it normalizes
stereoFiltersLimiterFirst(channels, normalize) ==
    <<getPanFilter(channels), "alimiter">>
        \o (IF normalize THEN <<"loudnorm">> ELSE <<>>)

\* Process Audio Complete, lines 467-473: the stages of stereoFilters in the
\* order the string joins them
stereoFilters(channels, normalize) ==
    <<getPanFilter(channels)>>
        \o (IF normalize THEN <<"loudnorm">> ELSE <<>>)
        \o <<"alimiter">>

\* line 475: '[0:a:' + mainAudioIndex + ']' + stereoFilters + '[stereo_out]'
filterComplex(an, normalize) ==
    [from |-> an.mainAudioIndex,
     stages |-> stereoFilters(an.mainAudioChannels, normalize)]

\* ------------------------------------------------ the plan (first copy)
\* An entry of outputAudio.  source is the audio index n of the source
\* string '0:a:' + n, which parseAudioIndexFromSource (lines 204-207) reads
\* back as n; -1 stands for a null source.  profile and originalCodec are ""
\* where the code leaves them undefined.
Track(src, co, la, ch, pr, oc, new, ddp, st) ==
    [source |-> src, codec |-> co, language |-> la, channels |-> ch, profile |-> pr,
     originalCodec |-> oc, isNew |-> new, isDDP |-> ddp, isStereo |-> st, title |-> ""]

\* lines 311-323
DDPTrack(an) ==
    Track(an.mainAudioIndex, "eac3", an.mainAudioLang, an.mainAudioChannels, "", "",
          TRUE, TRUE, FALSE)

\* lines 326-341: as.language || mainAudioLang
CopyTrack(aud, i, an) ==
    Track(i - 1, "copy", IF aud[i].language # "" THEN aud[i].language ELSE an.mainAudioLang,
          aud[i].channels, aud[i].profile, aud[i].codec, FALSE, FALSE, FALSE)

\* a downmix entry that keeps the main track's channel count
StereoTrackUnmixed(an) ==
    Track(-1, "aac", an.mainAudioLang, an.mainAudioChannels, "", "", TRUE, FALSE, TRUE)

\* lines 345-359
StereoTrack(an) ==
    Track(-1, "aac", an.mainAudioLang, 2, "", "", TRUE, FALSE, TRUE)

\* a rank that puts the entries absent from the list first
PriorityIdxAbsentFirst(list, x) == IndexOf(list, x)

\* lines 369-379: indexOf in the priority list, 999 when absent
PriorityIdx(list, x) == IF IndexOf(list, x) = -1 THEN 999 ELSE IndexOf(list, x)

\* the comparator of lines 368-380
Compare(a, b, pol) ==
    LET aLang == PriorityIdx(pol.languagePriority, normalizeLangCode(a.language))
        bLang == PriorityIdx(pol.languagePriority, normalizeLangCode(b.language))
        aCodec == PriorityIdx(pol.codecPriority, Lower(a.originalCodec))
        bCodec == PriorityIdx(pol.codecPriority, Lower(b.originalCodec))
    IN  IF aLang # bLang THEN aLang - bLang ELSE aCodec - bCodec

\* an insertion that puts the new entry before the entries comparing equal
RECURSIVE InsertSortedUnstable(_, _, _)
InsertSortedUnstable(sorted, x, pol) ==
    IF sorted = <<>> THEN <<x>>
    ELSE IF Compare(Head(sorted), x, pol) < 0
         THEN <<Head(sorted)>> \o InsertSortedUnstable(Tail(sorted), x, pol)
         ELSE <<x>> \o sorted

\* Array.prototype.sort is stable: insertion after the entries not greater
RECURSIVE InsertSorted(_, _, _)
InsertSorted(sorted, x, pol) ==
    IF sorted = <<>> THEN <<x>>
    ELSE IF Compare(Head(sorted), x, pol) <= 0
         THEN <<Head(sorted)>> \o InsertSorted(Tail(sorted), x, pol)
         ELSE <<x>> \o sorted

RECURSIVE SortTracks(_, _)
SortTracks(tracks, pol) ==
    IF tracks = <<>> THEN <<>>
    ELSE InsertSorted(SortTracks(SubSeq(tracks, 1, Len(tracks) - 1), pol),
                      tracks[Len(tracks)], pol)

\* lines 399-417: the title of one track
TitleOf(track, isOriginal, pol) ==
    LET langName == getLanguageName(track.language, pol.defaultLanguage)
        codecDisplay == IF track.isDDP THEN "DD+"
                        ELSE IF track.isStereo THEN "AAC"
                        ELSE getCodecDisplayName(track.originalCodec, track.profile)
        chan == getChannelDisplay(track.channels, track.profile)
        channelDisplay == IF codecDisplay \in {"DD+ Atmos", "TrueHD Atmos"} /\ chan = "Atmos"
                          THEN (IF track.channels = 8 THEN "7.1" ELSE "5.1")
                          ELSE chan
    IN  langName \o (IF isOriginal /\ ~track.isNew THEN " Original" ELSE "")
            \o " - " \o codecDisplay \o " - " \o channelDisplay

\* lines 386-420: titles in output order; seenLanguages is marked by the
\* tracks that are not new
RECURSIVE WithTitles(_, _, _)
WithTitles(tracks, seen, pol) ==
    IF tracks = <<>> THEN <<>>
    ELSE LET track == Head(tracks)
             lang == normalizeLangCode(track.language)
             isOriginal == lang \notin seen /\ ~track.isNew
             seen2 == IF track.isNew THEN seen ELSE seen \cup {lang}
         IN  <<[track EXCEPT !.title = TitleOf(track, isOriginal, pol)]>>
                 \o WithTitles(Tail(tracks), seen2, pol)

IsOriginalTrack(t) == ~t.isNew

\* lines 308-420: outputAudio in its final order, with titles
outputAudio(aud, an, pol) ==
    LET copies == [i \in 1..Len(aud) |-> CopyTrack(aud, i, an)]
        ordered == (IF an.needsDDP THEN <<DDPTrack(an)>> ELSE <<>>)
                       \o SortTracks(copies, pol)
                       \o (IF an.needsStereo THEN <<StereoTrack(an)>> ELSE <<>>)
    IN  WithTitles(ordered, {}, pol)

\* lines 429-437
needsTitleFix(aud, originalTracks) ==
    \E m \in 1..Len(originalTracks) :
        /\ originalTracks[m].source >= 0
        /\ aud[originalTracks[m].source + 1].title # originalTracks[m].title

\* lines 440-446
needsReorder(originalTracks) ==
    \E n \in 1..Len(originalTracks) : originalTracks[n].source # n - 1

\* lines 291-294 and 423-453: the pass ends without running the transcoder
NothingToDo(aud, an, out) ==
    LET originalTracks == SelectSeq(out, IsOriginalTrack)
    IN  \/ Len(aud) = 0
        \/ /\ ~an.needsDDP
           /\ ~an.needsStereo
           /\ ~needsReorder(originalTracks)
           /\ ~needsTitleFix(aud, originalTracks)

\* lines 464-507: the streams the transcoder is told to write: video first,
\* then one audio stream per entry of outputAudio, copied or encoded, with
\* the planned title and language, the first one flagged default
\* every output flagged default
DispositionAllDefault(p) == 1

\* lines 501-506: '-disposition:a:p default' for the first output, '0' for
\* the others; p counts from 1 here
Disposition(p) == IF p = 1 THEN 1 ELSE 0

OutputStream(aud, an, track, p, pol) ==
    Stream("audio",
           IF track.codec = "copy" THEN aud[track.source + 1].codec ELSE track.codec,
           IF track.codec = "copy" THEN aud[track.source + 1].channels
           ELSE IF track.codec = "aac" THEN 2
           ELSE aud[an.mainAudioIndex + 1].channels,
           IF track.language # "" THEN track.language ELSE pol.defaultLanguage,
           track.title,
           IF track.codec = "copy" THEN aud[track.source + 1].profile ELSE "",
           Disposition(p))

IsVideo(st) == st.type = "video"

OutputStreams(sts, aud, an, out, pol) ==
    SelectSeq(sts, IsVideo)
        \o [p \in 1..Len(out) |-> OutputStream(aud, an, out[p], p, pol)]

\* one pass over the streams sts: what it found, what it planned, whether it
\* ended without running the transcoder, and the streams of the file after it
PassResult(sts, aud, an, out, pol) ==
    [noop |-> NothingToDo(aud, an, out),
     analysis |-> an,
     outputAudio |-> out,
     filterComplex |-> [normalize \in BOOLEAN |->
                           IF an.needsStereo THEN filterComplex(an, normalize)
                           ELSE [from |-> -1, stages |-> <<>>]],
     produced |-> IF NothingToDo(aud, an, out) THEN sts
                  ELSE OutputStreams(sts, aud, an, out, pol)]

PassPlanned(sts, aud, an, pol) == PassResult(sts, aud, an, outputAudio(aud, an, pol), pol)

PassAnalyzed(sts, aud, pol) == PassPlanned(sts, aud, AnalysisOf("pacA", aud, pol), pol)

Pass(sts, pol) == PassAnalyzed(sts, AudioStreams("pacA", sts), pol)

\* ------------------------------------------------ the plan (second copy)
\* lines 876-888: the recode entry always names source '0:a:0'
DDPTrackB(an) ==
    Track(0, "eac3", an.mainAudioLang, an.mainAudioChannels, "", "", TRUE, TRUE, FALSE)

\* the comparator of lines 933-945, over the second copy's normalizeLangCode
CompareB(a, b, pol) ==
    LET aLang == PriorityIdx(pol.languagePriority, normalizeLangCodeB(a.language))
        bLang == PriorityIdx(pol.languagePriority, normalizeLangCodeB(b.language))
        aCodec == PriorityIdx(pol.codecPriority, Lower(a.originalCodec))
        bCodec == PriorityIdx(pol.codecPriority, Lower(b.originalCodec))
    IN  IF aLang # bLang THEN aLang - bLang ELSE aCodec - bCodec

RECURSIVE InsertSortedB(_, _, _)
InsertSortedB(sorted, x, pol) ==
    IF sorted = <<>> THEN <<x>>
    ELSE IF CompareB(Head(sorted), x, pol) <= 0
         THEN <<Head(sorted)>> \o InsertSortedB(Tail(sorted), x, pol)
         ELSE <<x>> \o sorted

RECURSIVE SortTracksB(_, _)
SortTracksB(tracks, pol) ==
    IF tracks = <<>> THEN <<>>
    ELSE InsertSortedB(SortTracksB(SubSeq(tracks, 1, Len(tracks) - 1), pol),
                       tracks[Len(tracks)], pol)

\* lines 951-981: every track, new or not, marks its language as seen
RECURSIVE WithTitlesB(_, _, _)
WithTitlesB(tracks, seen, pol) ==
    IF tracks = <<>> THEN <<>>
    ELSE LET track == Head(tracks)
             lang == normalizeLangCodeB(track.language)
             isOriginal == lang \notin seen /\ ~track.isNew
         IN  <<[track EXCEPT !.title = TitleOf(track, isOriginal, pol)]>>
                 \o WithTitlesB(Tail(tracks), seen \cup {lang}, pol)

\* lines 873-981
outputAudioB(aud, an, pol) ==
    LET copies == [i \in 1..Len(aud) |-> CopyTrack(aud, i, an)]
        ordered == (IF an.needsDDP THEN <<DDPTrackB(an)>> ELSE <<>>)
                       \o SortTracksB(copies, pol)
                       \o (IF an.needsStereo THEN <<StereoTrack(an)>> ELSE <<>>)
    IN  WithTitlesB(ordered, {}, pol)

\* lines 989-995: the title at position m of the input against the title of
\* the m-th planned copy
needsTitleFixB(aud, originalTracks) ==
    \E m \in 1..Len(originalTracks) :
        m <= Len(aud) /\ aud[m].title # originalTracks[m].title

\* lines 858-861 and 984-1011
NothingToDoB(aud, an, out) ==
    LET originalTracks == SelectSeq(out, IsOriginalTrack)
    IN  \/ Len(aud) = 0
        \/ /\ ~an.needsDDP
           /\ ~an.needsStereo
           /\ ~needsReorder(originalTracks)
           /\ ~needsTitleFixB(aud, originalTracks)

\* the second copy's decision over the same streams
PassResultB(aud, an, out) ==
    [noop |-> NothingToDoB(aud, an, out), analysis |-> an, outputAudio |-> out]

PassPlannedB(aud, an, pol) == PassResultB(aud, an, outputAudioB(aud, an, pol))

PassAnalyzedB(aud, pol) == PassPlannedB(aud, AnalysisOf("pacB", aud, pol), pol)

PassB(sts, pol) == PassAnalyzedB(AudioStreams("pacB", sts), pol)

\* ------------------------------------------------ Normalize Audio Titles
LowerLetters == "abcdefghijklmnopqrstuvwxyz"
UpperLetters == "ABCDEFGHIJKLMNOPQRSTUVWXYZ"

CharAt(str, i) == SubSeq(str, i, i)

LowerChar(c) ==
    IF \E i \in 1..Len(UpperLetters) : CharAt(UpperLetters, i) = c
    THEN CharAt(LowerLetters, CHOOSE i \in 1..Len(UpperLetters) : CharAt(UpperLetters, i) = c)
    ELSE c

UpperChar(c) ==
    IF \E i \in 1..Len(LowerLetters) : CharAt(LowerLetters, i) = c
    THEN CharAt(UpperLetters, CHOOSE i \in 1..Len(LowerLetters) : CharAt(LowerLetters, i) = c)
    ELSE c

\* String.prototype.toLowerCase, character by character
RECURSIVE toLowerCase(_)
toLowerCase(str) ==
    IF Len(str) = 0 THEN ""
    ELSE LowerChar(CharAt(str, 1)) \o toLowerCase(SubSeq(str, 2, Len(str)))

\* str.indexOf(sub) !== -1
Contains(str, sub) ==
    \E i \in 1..(Len(str) - Len(sub) + 1) : SubSeq(str, i, i + Len(sub) - 1) = sub

\* lines 249-265
detectDescriptor(existingTitle) ==
    LET lower == toLowerCase(existingTitle)
    IN  IF existingTitle = "" THEN ""
        ELSE IF Contains(lower, "commentary") THEN "Commentary"
        ELSE IF \/ Contains(lower, "descriptive")
                \/ Contains(lower, "described")
                \/ Contains(lower, "audio description")
                \/ lower = "ad"
             THEN "Descriptive"
        ELSE IF Contains(lower, "director") THEN "Directors Commentary"
        ELSE ""

\* lines 268-272: isValidLanguage
isValidLanguageNonEmpty(code) == code # ""

isValidLanguage(code) ==
    code # "" /\ toLowerCase(code) \notin {"und", "unk", ""}

\* LANGUAGE_MAP of lines 56-123
LanguageMapN(code) ==
    CASE code \in {"eng", "en"} -> "English"
      [] code \in {"fre", "fra", "fr"} -> "French"
      [] code \in {"spa", "es"} -> "Spanish"
      [] code \in {"ger", "deu", "de"} -> "German"
      [] code \in {"ita", "it"} -> "Italian"
      [] code \in {"jpn", "ja"} -> "Japanese"
      [] code \in {"por", "pt"} -> "Portuguese"
      [] code \in {"rus", "ru"} -> "Russian"
      [] code \in {"chi", "zho", "zh"} -> "Chinese"
      [] code \in {"kor", "ko"} -> "Korean"
      [] code \in {"ara", "ar"} -> "Arabic"
      [] code \in {"hin", "hi"} -> "Hindi"
      [] code \in {"pol", "pl"} -> "Polish"
      [] code \in {"dut", "nld", "nl"} -> "Dutch"
      [] code \in {"swe", "sv"} -> "Swedish"
      [] code \in {"nor", "no"} -> "Norwegian"
      [] code \in {"dan", "da"} -> "Danish"
      [] code \in {"fin", "fi"} -> "Finnish"
      [] code \in {"tha", "th"} -> "Thai"
      [] code \in {"vie", "vi"} -> "Vietnamese"
      [] code \in {"tur", "tr"} -> "Turkish"
      [] code \in {"heb", "he"} -> "Hebrew"
      [] code \in {"ind", "id"} -> "Indonesian"
      [] code \in {"may", "msa", "ms"} -> "Malay"
      [] code \in {"hun", "hu"} -> "Hungarian"
      [] code \in {"cze", "ces", "cs"} -> "Czech"
      [] code \in {"gre", "ell", "el"} -> "Greek"
      [] code \in {"ron", "rum", "ro"} -> "Romanian"
      [] code \in {"ukr", "uk"} -> "Ukrainian"
      [] OTHER -> ""

\* lines 126-132
getLanguageNameN(code, defaultLang) ==
    IF code = "" \/ code = "und" \/ code = "unk"
    THEN (IF LanguageMapN(defaultLang) # "" THEN LanguageMapN(defaultLang) ELSE "Unknown")
    ELSE IF LanguageMapN(toLowerCase(code)) # "" THEN LanguageMapN(toLowerCase(code))
    ELSE UpperChar(CharAt(code, 1)) \o toLowerCase(SubSeq(code, 2, Len(code)))

\* lines 135-215
getCodecDisplayNameN(codecName, profile) ==
    LET codec == toLowerCase(codecName)
        prof == toLowerCase(profile)
    IN  CASE codec = "eac3" ->
                (IF Contains(prof, "joc") \/ Contains(prof, "atmos") THEN "DD+ Atmos" ELSE "DD+")
          [] codec = "ac3" -> "DD"
          [] codec \in {"dts", "dca"} ->
                (IF Contains(prof, "ma") \/ Contains(prof, "master") THEN "DTS-HD MA"
                 ELSE IF Contains(prof, "hra") \/ Contains(prof, "high res") THEN "DTS-HD HRA"
                 ELSE IF Contains(prof, "x") /\ ~Contains(prof, "express") THEN "DTS:X"
                 ELSE IF Contains(prof, "es") THEN "DTS-ES"
                 ELSE "DTS")
          [] codec = "truehd" -> (IF Contains(prof, "atmos") THEN "TrueHD Atmos" ELSE "TrueHD")
          [] codec = "aac" -> "AAC"
          [] codec = "flac" -> "FLAC"
          [] codec = "opus" -> "Opus"
          [] codec = "mp3" -> "MP3"
          [] Contains(codec, "pcm") -> "PCM"
          [] codec = "vorbis" -> "Vorbis"
          [] Contains(codec, "wma") -> "WMA"
          [] OTHER -> Upper(codec)

\* lines 218-246; the probed streams carry no channel_layout
getChannelDisplayN(channels, profile) ==
    LET prof == toLowerCase(profile)
    IN  IF Contains(prof, "joc") \/ Contains(prof, "atmos") THEN "Atmos"
        ELSE CASE channels = 8 -> "7.1"
               [] channels = 7 -> "6.1"
               [] channels = 6 -> "5.1"
               [] channels = 5 -> "5.0"
               [] channels = 4 -> "4.0"
               [] channels = 3 -> "3.0"
               [] channels = 2 -> "Stereo"
               [] channels = 1 -> "Mono"
               [] OTHER -> ChannelsCh(channels)

\* lines 311-322: the first audio stream with a valid language tag
RECURSIVE inheritedLanguage(_, _)
inheritedLanguage(aud, defaultLanguage) ==
    IF aud = <<>> THEN defaultLanguage
    ELSE IF isValidLanguage(Head(aud).lang) THEN Head(aud).lang
    ELSE inheritedLanguage(Tail(aud), defaultLanguage)

\* lines 339-347
langKey(langCode) ==
    CASE langCode = "fra" -> "fre"
      [] langCode = "deu" -> "ger"
      [] langCode = "zho" -> "chi"
      [] langCode = "ces" -> "cze"
      [] langCode = "nld" -> "dut"
      [] langCode = "ell" -> "gre"
      [] langCode = "msa" -> "may"
      [] langCode = "ron" -> "rum"
      [] OTHER -> langCode

\* the title of one stream with the channel label left as getChannelDisplay
\* gives it
NatTitleUndemoted(st, effectiveLang, isOriginal, descriptor, defaultLanguage) ==
    getLanguageNameN(effectiveLang, defaultLanguage)
        \o (IF isOriginal THEN " Original" ELSE "")
        \o (IF descriptor # "" THEN " " \o descriptor ELSE "")
        \o " - " \o getCodecDisplayNameN(st.codec, st.profile)
        \o " - " \o getChannelDisplayN(st.channels, st.profile)

\* lines 362-381: the title of one stream
NatTitle(st, effectiveLang, isOriginal, descriptor, defaultLanguage) ==
    LET codecName == getCodecDisplayNameN(st.codec, st.profile)
        chan == getChannelDisplayN(st.channels, st.profile)
        channelDisplay == IF Contains(codecName, "Atmos") /\ chan = "Atmos"
                          THEN (IF st.channels = 8 THEN "7.1"
                                ELSE IF st.channels = 6 THEN "5.1"
                                ELSE ChannelsCh(st.channels))
                          ELSE chan
    IN  getLanguageNameN(effectiveLang, defaultLanguage)
            \o (IF isOriginal THEN " Original" ELSE "")
            \o (IF descriptor # "" THEN " " \o descriptor ELSE "")
            \o " - " \o codecName \o " - " \o channelDisplay

\* lines 329-392: audioMetadata, over the audio streams from position index on
RECURSIVE audioMetadata(_, _, _, _, _)
audioMetadata(aud, index, seenLanguages, inherited, defaultLanguage) ==
    IF index > Len(aud) THEN <<>>
    ELSE LET st == aud[index]
             effectiveLang == IF isValidLanguage(st.lang) THEN st.lang ELSE inherited
             key == langKey(toLowerCase(effectiveLang))
             descriptor == detectDescriptor(st.title)
             isOriginal == key \notin seenLanguages /\ descriptor = ""
         IN  <<[index |-> index - 1,
                title |-> NatTitle(st, effectiveLang, isOriginal, descriptor, defaultLanguage),
                language |-> effectiveLang,
                originalTitle |-> st.title]>>
                 \o audioMetadata(aud, index + 1, seenLanguages \cup {key}, inherited,
                                  defaultLanguage)

\* lines 400-407
needsUpdate(meta) == \E i \in 1..Len(meta) : meta[i].title # meta[i].originalTitle

\* lines 394-412: 2 without audio, 1 when every title is already right, 0
\* when the plugin goes on to the remux
NatAnswer(meta) ==
    IF Len(meta) = 0 THEN 2 ELSE IF ~needsUpdate(meta) THEN 1 ELSE 0

NatResult(meta) == [audioMetadata |-> meta, early |-> NatAnswer(meta)]

\* lines 304-412 over the audio streams aud
NormalizeTitles(aud, defaultLanguage) ==
    NatResult(audioMetadata(aud, 1, {}, inheritedLanguage(aud, defaultLanguage),
                            defaultLanguage))

\* ------------------------------------------------ Check Main Audio Stream Channels
\* what the plugin finds at args.inputFileObj.ffProbeData
ProbeData == {"ok", "missing", "notArray"}

\* args.inputs.condition: the three options of the dropdown, a value outside
\* them, and "" for an input left empty
ConditionInputs == {"stereo", "multichannel", "mono", "surround", ""}

\* line 1228: String(args.inputs.condition || 'multichannel')
condition(chosen) == IF chosen = "" THEN "multichannel" ELSE chosen

\* line 1231
validConditions == {"stereo", "multichannel", "mono"}

\* a multichannel test that takes stereo too
matchesFromTwo(cond, channels) ==
    CASE cond = "stereo" -> channels = 2
      [] cond = "multichannel" -> channels >= 2
      [] cond = "mono" -> channels = 1
      [] OTHER -> FALSE

\* the switch of lines 1346-1367
matches(cond, channels) ==
    CASE cond = "stereo" -> channels = 2
      [] cond = "multichannel" -> channels > 2
      [] cond = "mono" -> channels = 1
      [] OTHER -> FALSE

\* lines 1228-1375: the output number; aud are the audio streams of the probe
CheckOutputNumber(chosen, pd, aud) ==
    IF condition(chosen) \notin validConditions THEN 2
    ELSE IF pd = "missing" THEN 2
    ELSE IF pd = "notArray" THEN 2
    ELSE IF targetRelativeIndex(aud) = -1 THEN 2
    ELSE IF \/ ~IsNumber(aud[targetRelativeIndex(aud) + 1].channels)
            \/ aud[targetRelativeIndex(aud) + 1].channels < 0
         THEN 2
    ELSE IF matches(condition(chosen), aud[targetRelativeIndex(aud) + 1].channels) THEN 1
    ELSE 2

\* every return of the plugin hands back args.inputFileObj
CheckMainAudioChannels(chosen, pd, aud) ==
    [outputNumber |-> CheckOutputNumber(chosen, pd, aud), outputFile |-> OrigRef]

\* ------------------------------------------------ Create Stereo Downmix, analysis
\* lines 336-399: which exit of the analysis the probe data leads to
csdProbeCase(pd, aud) ==
    IF pd # "ok" THEN "noProbe"
    ELSE IF targetAudioIndex(aud) = -1 THEN "noAudio"
    ELSE IF \/ ~IsNumber(aud[targetAudioIndex(aud) + 1].channels)
            \/ aud[targetAudioIndex(aud) + 1].channels < 1
         THEN "badChannels"
    ELSE IF aud[targetAudioIndex(aud) + 1].channels <= 2 THEN "stereo"
    ELSE "process"

\* --------------------------------- Create Stereo Downmix: the transcoder command
\* Create Stereo Downmix, lines 124-172; layout is channelLayout in lower case
getPanFilterLayout(channels, channelLayout) ==
    LET layout == toLowerCase(channelLayout)
    IN  IF channels = 6 \/ Contains(layout, "5.1") THEN "mix51"
        ELSE IF channels = 8 \/ Contains(layout, "7.1") THEN "mix71"
        ELSE IF channels = 7 \/ Contains(layout, "6.1") THEN "mix61"
        ELSE IF channels = 4 \/ Contains(layout, "quad") \/ Contains(layout, "4.0")
        THEN "quad"
        ELSE IF channels = 3 THEN "centre"
        ELSE IF channels > 8 THEN "aformat"
        ELSE "mix51"

\* Create Stereo Downmix, lines 401-410: the stages of audioFilter
audioFilter(channels, channelLayout, normalize) ==
    <<getPanFilterLayout(channels, channelLayout)>>
        \o (IF normalize THEN <<"loudnorm">> ELSE <<>>)
        \o <<"alimiter">>

\* line 415: var newStereoIndex = audioStreamCount
newStereoIndexLast(audioStreamCount) == audioStreamCount - 1

newStereoIndex(audioStreamCount) == audioStreamCount

\* lines 433-434, '-map 0:a' then '-map [stereo]': the audio outputs in output
\* order, each with the input audio index it is taken from
csdMapped(aud) ==
    [k \in 1..Len(aud) + 1 |->
        IF k <= Len(aud) THEN [from |-> k - 1, filtered |-> FALSE]
        ELSE [from |-> targetAudioIndex(aud), filtered |-> TRUE]]

\* lines 441-445: the options given with the stream specifier a:N
csdSpecified ==
    {<<"c", "encoder">>, <<"b", "bitrate">>, <<"ac", "2">>, <<"disposition", "0">>,
     <<"metadata", "title">>}

\* lines 428-447: '-c:a copy' covers every audio output, an option with the
\* specifier a:N covers the audio output of index N
csdOutputAudio(aud) ==
    LET N == newStereoIndex(Len(aud))
        maps == csdMapped(aud)
    IN  [k \in 1..Len(maps) |->
            [from |-> maps[k].from,
             filtered |-> maps[k].filtered,
             codec |-> IF k - 1 = N THEN "encoder" ELSE "copy",
             options |-> IF k - 1 = N THEN csdSpecified ELSE {}]]

\* lines 336-447: the command is built only past the analysis exits
csdCommand(aud) ==
    IF csdProbeCase("ok", aud) = "process" THEN csdOutputAudio(aud) ELSE <<>>

\* ------------------------------------------------ planning as a state machine
MaxAudio == 2
MaxPasses == 2

\* the audio streams the files are made of; ffprobe prints disposition.default
\* as 0 or 1
AudioPool ==
    {Stream("audio", cc[1], cc[2], la, "", "", d) :
        cc \in {<<"dts", 6>>, <<"eac3", 6>>, <<"aac", 2>>},
        la \in {"eng", "fre", ""},
        d \in {0, 1}}
    \cup {Stream("audio", "aac", 2, "fre", "Commentary", "", 0),
          Stream("audio", "aac", 2, "fr", "", "", 0),
          Stream("audio", "dts", Absent, "eng", "", "", 1),
          Stream("audio", "aac", 1, "eng", "", "", 1),
          Stream("audio", "eac3", 2, "eng", "English Original - DD+ - Stereo", "", 1)}

RECURSIVE SeqsUpTo(_, _)
SeqsUpTo(S, n) ==
    IF n = 0 THEN {<<>>}
    ELSE SeqsUpTo(S, n - 1)
             \cup {Append(q, x) : q \in {r \in SeqsUpTo(S, n - 1) : Len(r) = n - 1}, x \in S}

StreamLists ==
    {video \o audio : video \in {<<>>, <<VideoStream>>}, audio \in SeqsUpTo(AudioPool, MaxAudio)}

\* languages and codecs after split(','), trim and toLowerCase (lines 225-227)
Policies ==
    [createDDP : BOOLEAN, createStereo : BOOLEAN, defaultLanguage : {"eng", "fre"},
     languagePriority : {<<"eng", "fre">>, <<"fre", "eng">>},
     codecPriority : {<<"eac3", "dts", "aac">>, <<"aac", "eac3">>}]

\* every plugin's analysis of the probed streams
Analyze ==
    /\ ~analysis.done
    /\ analysis' = [done |-> TRUE,
                    pacA |-> Analysis("pacA", probed, policy),
                    pacB |-> Analysis("pacB", probed, policy),
                    nat |-> NormalizeTitles(AudioOf(probed), policy.defaultLanguage),
                    csd |-> targetAudioIndex(AudioStreams("csd", probed)),
                    chk |-> targetRelativeIndex(AudioStreams("chk", probed)),
                    csdCase |-> csdProbeCase("ok", AudioStreams("csd", probed)),
                    csdCommand |-> csdCommand(AudioStreams("csd", probed)),
                    check |-> [ci \in ConditionInputs \X ProbeData |->
                                  CheckMainAudioChannels(ci[1], ci[2],
                                                         AudioStreams("chk", probed))]]
    /\ UNCHANGED <<probed, current, policy, passes>>

\* one pass of Process Audio Complete over the file as it is now; a pass that
\* runs the transcoder leaves the streams it planned.  second is what the
\* second copy of the plugin decides over the same streams.
RunPass ==
    /\ analysis.done
    /\ Len(passes) < MaxPasses
    /\ passes' = Append(passes, Pass(current, policy) @@ [second |-> PassB(current, policy)])
    /\ current' = passes'[Len(passes')].produced
    /\ UNCHANGED <<probed, policy, analysis>>

PlanNext ==
    \/ Analyze /\ UNCHANGED <<protoVars, call>>
    \/ RunPass /\ UNCHANGED <<protoVars, call>>

PlanInit ==
    /\ probed \in StreamLists
    /\ current = probed
    /\ policy \in Policies
    /\ analysis = NoAnalysis
    /\ passes = <<>>
    /\ call = NoCall
    /\ plug = "pacA"
    /\ probe = "process"
    /\ active = {}
    /\ now = 0
    /\ ticks = 0
    /\ faultsLeft = 0
    /\ lock = NoLock
    /\ input = "orig"
    /\ temp = [w \in Workers |-> "none"]
    /\ backup = [w \in Workers |-> "none"]
    /\ filesToCleanup = [w \in Workers |-> {"temp"}]
    /\ pc = [w \in Workers |-> "idle"]
    /\ start = [w \in Workers |-> 0]
    /\ outputNumber = [w \in Workers |-> 0]
    /\ outputFile = [w \in Workers |-> ""]
    /\ jobLog = [w \in Workers |-> {}]
    /\ hist = [w \in Workers |-> NoHist]

PlanSpec == PlanInit /\ [][PlanNext]_vars

\* ======================================================================
\* Single calls of the plugins' functions
\* ======================================================================
MaxTagged == 3

\* language tags as ffprobe reports them: valid, absent and undetermined
TagPool == {"eng", "fra", "", "UND", "unk"}

TaggedStreams ==
    SeqsUpTo({Stream("audio", "aac", 2, la, "", "", 0) : la \in TagPool}, MaxTagged)

NormalizeCalls ==
    {[fn |-> "normalizeTitles", done |-> FALSE, ret |-> <<>>,
      args |-> [streams |-> sts, defaultLanguage |-> d]] :
        sts \in TaggedStreams, d \in {"eng", "fre"}}

\* Normalize Audio Titles, lines 290-412, over the probed streams
CallNormalizeTitles ==
    /\ call.fn = "normalizeTitles"
    /\ ~call.done
    /\ call' = [call EXCEPT !.done = TRUE,
                            !.ret = NormalizeTitles(AudioOf(call.args.streams),
                                                    call.args.defaultLanguage)]

\* --------------------------- Create Stereo Downmix: verification of the output
\* 1 * 1024 * 1024 (lines 496, 499)
OneMB == 1048576

Max(a, b) == IF a >= b THEN a ELSE b

\* lines 488-491: parseFloat(format.duration) || 0
parseDuration(raw) == IF raw = Absent THEN 0 ELSE raw

\* lines 493-500, times 20 to stay in the integers: half of
\* duration * bitrate * 1024 / 8 is duration * bitrate * 64, and 0.05 is 1/20
minOutputSizeTimes20(inputSize, duration, bitrate) ==
    IF duration > 0
    THEN Max(20 * OneMB, 20 * (duration * bitrate * 64))
    ELSE Max(20 * OneMB, inputSize)

\* line 502: outputStats.size < minOutputSize
outputTooSmall(outputSize, inputSize, duration, bitrate) ==
    20 * outputSize < minOutputSizeTimes20(inputSize, duration, bitrate)

\* lines 537-555, without the test of codec_name
verificationPassedStereoOnly(stdout) ==
    /\ stdout.parses
    /\ Len(stdout.streams) > 0
    /\ stdout.streams[Len(stdout.streams)].channels = 2

\* lines 537-555: JSON.parse, the last of probeData.streams, 2 channels and aac
verificationPassed(stdout) ==
    /\ stdout.parses
    /\ Len(stdout.streams) > 0
    /\ stdout.streams[Len(stdout.streams)].channels = 2
    /\ stdout.streams[Len(stdout.streams)].codec_name = "aac"

\* lines 474-558: "cleanup" is return cleanup(2), "replace" goes on to the
\* file replacement of line 560
verifyOutput(a) ==
    IF ~a.statOk THEN "cleanup"
    ELSE IF outputTooSmall(a.outputSize, a.inputSize, parseDuration(a.duration), a.bitrate)
    THEN "cleanup"
    ELSE IF a.status # 0 THEN "cleanup"
    ELSE IF ~verificationPassed(a.stdout) THEN "cleanup"
    ELSE "replace"

ProbedOutputs ==
    {[parses |-> FALSE, streams |-> <<>>],
     [parses |-> TRUE, streams |-> <<>>],
     [parses |-> TRUE, streams |-> <<[channels |-> 2, codec_name |-> "aac"]>>],
     [parses |-> TRUE, streams |-> <<[channels |-> 6, codec_name |-> "dts"],
                                     [channels |-> 2, codec_name |-> "aac"]>>],
     [parses |-> TRUE, streams |-> <<[channels |-> 2, codec_name |-> "aac"],
                                     [channels |-> 6, codec_name |-> "dts"]>>],
     [parses |-> TRUE, streams |-> <<[channels |-> 6, codec_name |-> "dts"],
                                     [channels |-> 2, codec_name |-> "ac3"]>>]}

\* sizes in bytes around 1 MB, around 100 s at 192 kbit/s halved (1,228,800)
\* and around a twentieth of 40 MB (2,097,152); durations in seconds
VerifyCalls ==
    {[fn |-> "verifyOutput", done |-> FALSE, ret |-> <<>>,
      args |-> [statOk |-> so, outputSize |-> os, inputSize |-> is, duration |-> du,
                bitrate |-> br, status |-> st, stdout |-> po]] :
        so \in BOOLEAN,
        os \in {1048575, 1048576, 1228799, 1228800, 2097151, 2097152},
        is \in {10485760, 41943040},
        du \in {Absent, 0, 100},
        br \in {64, 192},
        st \in {0, 1},
        po \in ProbedOutputs}

\* Create Stereo Downmix, lines 474-558, over what the stats and the
\* re-probe of the output report
CallVerifyOutput ==
    /\ call.fn = "verifyOutput"
    /\ ~call.done
    /\ call' = [call EXCEPT !.done = TRUE, !.ret = verifyOutput(call.args)]

\* ------------------------------------------------ parsing of the inputs
\* the value parseInt gives for a string that starts with no number
NaN == -1000000

IsDigit(c) == c \in {"0", "1", "2", "3", "4", "5", "6", "7", "8", "9"}

DigitValue(c) ==
    CASE c = "0" -> 0 [] c = "1" -> 1 [] c = "2" -> 2 [] c = "3" -> 3 [] c = "4" -> 4
      [] c = "5" -> 5 [] c = "6" -> 6 [] c = "7" -> 7 [] c = "8" -> 8 [] c = "9" -> 9

\* the leading digits of str from position i on, after the value acc
RECURSIVE LeadingDigits(_, _, _)
LeadingDigits(str, i, acc) ==
    IF i > Len(str) \/ ~IsDigit(CharAt(str, i)) THEN acc
    ELSE LeadingDigits(str, i + 1, 10 * acc + DigitValue(CharAt(str, i)))

\* parseInt(str, 10): an optional sign, then the leading digits; NaN without
\* a digit
parseInt(str) ==
    LET signed == Len(str) > 0 /\ CharAt(str, 1) \in {"-", "+"}
        first == IF signed THEN 2 ELSE 1
    IN  IF first > Len(str) \/ ~IsDigit(CharAt(str, first)) THEN NaN
        ELSE IF signed /\ CharAt(str, 1) = "-" THEN 0 - LeadingDigits(str, first, 0)
        ELSE LeadingDigits(str, first, 0)

\* parseInt(str, 10) || fallback
parseIntOr(str, fallback) ==
    IF parseInt(str) = NaN \/ parseInt(str) = 0 THEN fallback ELSE parseInt(str)

\* Create Stereo Downmix, lines 116-122
validateBitrate(bitrate) ==
    IF parseInt(bitrate) = NaN \/ parseInt(bitrate) < 64 \/ parseInt(bitrate) > 512
    THEN 192
    ELSE parseInt(bitrate)

\* the inputs as the plugin uses them: Create Stereo Downmix lines 272-277,
\* Process Audio Complete lines 222-224, Check Main Audio Stream Channels
\* lines 1228-1239 (rejected: the plugin answers 2 at once)
parseInputs(a) ==
    CASE a.plugin = "csd" ->
           [bitrate |-> validateBitrate(a.bitrate),
            loudnormTarget |-> parseIntOr(a.loudnormTarget, -16),
            timeoutMs |-> parseIntOr(a.timeout, 60) * 60 * 1000,
            rejected |-> FALSE]
      [] a.plugin = "pacA" ->
           [bitrate |-> parseIntOr(a.bitrate, 256),
            loudnormTarget |-> parseIntOr(a.loudnormTarget, -16),
            timeoutMs |-> 0,
            rejected |-> FALSE]
      [] a.plugin = "chk" ->
           [bitrate |-> 0, loudnormTarget |-> 0, timeoutMs |-> 0,
            rejected |-> condition(a.condition) \notin validConditions]

\* Create Stereo Downmix, line 84: the timeouts the dropdown offers, in minutes
TimeoutOptions == {"30", "60", "120", "180"}

InputCalls ==
    {[fn |-> "parseInputs", done |-> FALSE, ret |-> <<>>,
      args |-> [plugin |-> k, bitrate |-> br, loudnormTarget |-> lt, timeout |-> to,
                condition |-> "multichannel"]] :
        k \in {"csd", "pacA"},
        br \in {"192", "64", "63", "512", "513", "9999", "0", "-5", "abc", "", "128k"},
        lt \in {"-16", "-24", "-14", "0", "5", "-100", "loud", ""},
        to \in TimeoutOptions \cup {"0", "-5", "10000", "soon"}}
    \cup {[fn |-> "parseInputs", done |-> FALSE, ret |-> <<>>,
           args |-> [plugin |-> "chk", bitrate |-> "", loudnormTarget |-> "",
                     timeout |-> "", condition |-> co]] : co \in ConditionInputs}

CallParseInputs ==
    /\ call.fn = "parseInputs"
    /\ ~call.done
    /\ call' = [call EXCEPT !.done = TRUE, !.ret = parseInputs(call.args)]

MaxChannels == 10
MaxListed == 3

\* channel_layout as ffprobe reports it
Layouts == {"", "5.1(side)", "7.1", "6.1", "quad", "4.0"}

PanCalls ==
    {[fn |-> "getPanFilter", done |-> FALSE, ret |-> <<>>,
      args |-> [plugin |-> k, channels |-> ch, channelLayout |-> la]] :
        k \in {"pacA", "csd"}, ch \in 1..MaxChannels, la \in Layouts}

\* getPanFilter of either plugin; Process Audio Complete passes no layout
CallGetPanFilter ==
    /\ call.fn = "getPanFilter"
    /\ ~call.done
    /\ call' = [call EXCEPT !.done = TRUE,
                            !.ret = IF call.args.plugin = "csd"
                                    THEN getPanFilterLayout(call.args.channels,
                                                            call.args.channelLayout)
                                    ELSE getPanFilter(call.args.channels)]

\* both plugins build the chain only for a main track of more than 2 channels
\* (createStereoDownmix 385-399, part_000 299 and 467)
ChainCalls ==
    {[fn |-> "filterChain", done |-> FALSE, ret |-> <<>>,
      args |-> [plugin |-> k, channels |-> ch, channelLayout |-> la, normalize |-> nz]] :
        k \in {"pacA", "csd"}, ch \in 3..MaxChannels, la \in Layouts, nz \in BOOLEAN}

\* the filter chain of the downmix: createStereoDownmix 401-410, part_000 467-473
CallFilterChain ==
    /\ call.fn = "filterChain"
    /\ ~call.done
    /\ call' = [call EXCEPT !.done = TRUE,
                            !.ret = IF call.args.plugin = "csd"
                                    THEN audioFilter(call.args.channels,
                                                     call.args.channelLayout,
                                                     call.args.normalize)
                                    ELSE stereoFilters(call.args.channels,
                                                       call.args.normalize)]

\* language tags of French, German, English and Greek
LangCodes ==
    {"fr", "fre", "fra", "FRA", "de", "ger", "deu", "en", "eng", "ENG", "ell", "gre"}

LanguageCalls ==
    {[fn |-> "languageKey", done |-> FALSE, ret |-> <<>>,
      args |-> [plugin |-> k, code |-> c]] :
        k \in {"pacA", "pacB", "nat"}, c \in LangCodes}

\* the code under which a plugin groups a language tag: normalizeLangCode in
\* the two copies of Process Audio Complete (part_000 183-201, 761-769),
\* langKey over the lower-cased tag in Normalize Audio Titles (336-347)
languageKey(k, code) ==
    IF k = "nat" THEN langKey(toLowerCase(code)) ELSE NormLang(k, code)

CallLanguageKey ==
    /\ call.fn = "languageKey"
    /\ ~call.done
    /\ call' = [call EXCEPT !.done = TRUE,
                            !.ret = languageKey(call.args.plugin, call.args.code)]

\* streams that carry object audio (E-AC-3 with JOC, TrueHD with Atmos) in
\* 5.1 and 7.1 beds, and one plain E-AC-3 stream
ObjectAudioPool ==
    {Stream("audio", "eac3", 6, "eng", "", "Dolby Digital Plus + JOC", 1),
     Stream("audio", "eac3", 8, "eng", "", "Dolby Digital Plus + JOC", 0),
     Stream("audio", "truehd", 8, "eng", "", "Dolby TrueHD + Dolby Atmos", 1),
     Stream("audio", "truehd", 6, "fre", "", "Dolby TrueHD + Dolby Atmos", 0),
     Stream("audio", "eac3", 6, "fre", "", "", 0)}

ObjectAudioLists == SeqsUpTo(ObjectAudioPool, MaxAudio)

ObjectAudioCalls ==
    {[fn |-> "processAudio", done |-> FALSE, ret |-> <<>>,
      args |-> [streams |-> sts, policy |-> pol]] :
        sts \in ObjectAudioLists, pol \in Policies}
        \cup
    {[fn |-> "normalizeTitles", done |-> FALSE, ret |-> <<>>,
      args |-> [streams |-> sts, defaultLanguage |-> d]] :
        sts \in ObjectAudioLists, d \in {"eng", "fre"}}

ListedPool ==
    {Stream("audio", "dts", 6, "eng", "", "", 1),
     Stream("audio", "eac3", 6, "fre", "", "", 1),
     Stream("audio", "aac", 2, "fre", "", "", 0),
     Stream("audio", "dts", 6, "ger", "", "", 0)}

ProcessCalls ==
    {[fn |-> "processAudio", done |-> FALSE, ret |-> <<>>,
      args |-> [streams |-> sts, policy |-> pol]] :
        sts \in SeqsUpTo(ListedPool, MaxListed), pol \in Policies}

\* one pass of Process Audio Complete (first copy) over the probed streams
CallProcessAudio ==
    /\ call.fn = "processAudio"
    /\ ~call.done
    /\ call' = [call EXCEPT !.done = TRUE,
                            !.ret = Pass(call.args.streams, call.args.policy)]

\* ------------------------------ Normalize Audio Titles run on its own output
\* lines 434-439: the remux copies every stream and writes each audio
\* stream's title and language
NatOutput(aud, meta) ==
    [i \in 1..Len(aud) |-> [aud[i] EXCEPT !.title = meta[i].title,
                                          !.lang = meta[i].language]]

\* the plugin run on a file and then on the file that run leaves: a run that
\* answers early leaves the file as it is
NormalizeTwice(aud, defaultLanguage) ==
    LET first == NormalizeTitles(aud, defaultLanguage)
        left == IF first.early = 0 THEN NatOutput(aud, first.audioMetadata) ELSE aud
    IN  [first |-> first, left |-> left, second |-> NormalizeTitles(left, defaultLanguage)]

\* titles found on streams: none, a commentary, a descriptive track, a
\* director's track, and a title the plugin wrote itself
TitlePool ==
    {"", "Cast Commentary", "Audio Description", "AD", "Director", "English - AAC - Stereo"}

TitledStreams ==
    SeqsUpTo({Stream("audio", "aac", 2, la, ti, "", 0) : la \in {"eng", ""}, ti \in TitlePool},
             MaxAudio)

NormalizeTwiceCalls ==
    {[fn |-> "normalizeTwice", done |-> FALSE, ret |-> <<>>,
      args |-> [streams |-> sts, defaultLanguage |-> "eng"]] : sts \in TitledStreams}

CallNormalizeTwice ==
    /\ call.fn = "normalizeTwice"
    /\ ~call.done
    /\ call' = [call EXCEPT !.done = TRUE,
                            !.ret = NormalizeTwice(AudioOf(call.args.streams),
                                                   call.args.defaultLanguage)]

\* ------------------------------ Create Stereo Downmix run on its own output
\* lines 428-447: the audio streams of the file the command writes; a copied
\* stream keeps its tags and its disposition, the filtered one is 2-channel
\* AAC, not default, with the title of the trackTitle input and no language
csdAudioWritten(auds, cmd) ==
    [k \in 1..Len(cmd) |->
        IF cmd[k].filtered THEN Stream("audio", "aac", 2, "", "Stereo", "", 0)
        ELSE auds[cmd[k].from + 1]]

\* the plugin run on a file and then on the file that run leaves: a run that
\* ends at an analysis exit leaves the file as it is
DownmixTwice(sts) ==
    LET first == csdCommand(AudioStreams("csd", sts))
        left == IF first = <<>> THEN AudioOf(sts) ELSE csdAudioWritten(AudioOf(sts), first)
    IN  [first |-> first, left |-> left,
         secondCase |-> csdProbeCase("ok", AudioStreams("csd", left)),
         second |-> csdCommand(AudioStreams("csd", left))]

DownmixTwiceCalls ==
    {[fn |-> "downmixTwice", done |-> FALSE, ret |-> <<>>, args |-> [streams |-> sts]] :
        sts \in SeqsUpTo(ListedPool, MaxAudio)}

CallDownmixTwice ==
    /\ call.fn = "downmixTwice"
    /\ ~call.done
    /\ call' = [call EXCEPT !.done = TRUE, !.ret = DownmixTwice(call.args.streams)]

CallInputs == NormalizeCalls \cup VerifyCalls \cup PanCalls \cup ChainCalls \cup ProcessCalls
                  \cup LanguageCalls \cup InputCalls \cup ObjectAudioCalls
                  \cup NormalizeTwiceCalls \cup DownmixTwiceCalls

CallNext ==
    \/ CallNormalizeTitles /\ UNCHANGED <<protoVars, planVars>>
    \/ CallVerifyOutput /\ UNCHANGED <<protoVars, planVars>>
    \/ CallGetPanFilter /\ UNCHANGED <<protoVars, planVars>>
    \/ CallFilterChain /\ UNCHANGED <<protoVars, planVars>>
    \/ CallProcessAudio /\ UNCHANGED <<protoVars, planVars>>
    \/ CallLanguageKey /\ UNCHANGED <<protoVars, planVars>>
    \/ CallParseInputs /\ UNCHANGED <<protoVars, planVars>>
    \/ CallNormalizeTwice /\ UNCHANGED <<protoVars, planVars>>
    \/ CallDownmixTwice /\ UNCHANGED <<protoVars, planVars>>

CallInit ==
    /\ call \in CallInputs
    /\ probed = <<>>
    /\ current = <<>>
    /\ policy = NoPolicy
    /\ analysis = NoAnalysis
    /\ passes = <<>>
    /\ plug = "csd"
    /\ probe = "process"
    /\ active = {}
    /\ now = 0
    /\ ticks = 0
    /\ faultsLeft = 0
    /\ lock = NoLock
    /\ input = "orig"
    /\ temp = [w \in Workers |-> "none"]
    /\ backup = [w \in Workers |-> "none"]
    /\ filesToCleanup = [w \in Workers |-> {"temp"}]
    /\ pc = [w \in Workers |-> "idle"]
    /\ start = [w \in Workers |-> 0]
    /\ outputNumber = [w \in Workers |-> 0]
    /\ outputFile = [w \in Workers |-> ""]
    /\ jobLog = [w \in Workers |-> {}]
    /\ hist = [w \in Workers |-> NoHist]

CallSpec == CallInit /\ [][CallNext]_vars

\* ======================================================================
\* Properties of the planning
\* ======================================================================
\* the main track as the design states it: the first audio stream flagged
\* default, else the first audio stream (0-based among the audio streams)
MainTrackIndex(sts) ==
    LET flagged == {i \in 1..Len(AudioOf(sts)) : AudioOf(sts)[i].def = 1}
    IN  IF flagged = {} THEN 0
        ELSE (CHOOSE i \in flagged : \A j \in flagged : i <= j) - 1

MainTrack(sts) == AudioOf(sts)[MainTrackIndex(sts) + 1]

HasAudio(sts) == Len(AudioOf(sts)) > 0

\* a stereo track whose language is the configured default language, or whose
\* language tag is absent or undetermined
StereoInDefaultLanguage(sts, pol) ==
    \E i \in 1..Len(AudioOf(sts)) :
        /\ AudioOf(sts)[i].channels = 2
        /\ \/ AudioOf(sts)[i].lang \in {"", "und"}
           \/ normalizeLangCode(AudioOf(sts)[i].lang) = normalizeLangCode(pol.defaultLanguage)

\* C7: whenever the file has an audio stream, each plugin that selects a main
\* track (Process Audio Complete, Create Stereo Downmix, Check Main Audio
\* Stream Channels) selects the first audio stream flagged default, or the
\* first audio stream when none is flagged.
C7_MainTrackIsFirstDefault ==
    (analysis.done /\ HasAudio(probed)) =>
        /\ analysis.pacA.mainAudioIndex = MainTrackIndex(probed)
        /\ analysis.csd = MainTrackIndex(probed)
        /\ analysis.chk = MainTrackIndex(probed)

\* C8: a second pass of Process Audio Complete over the streams its own first
\* pass produced ends as a no-op, whatever the first pass synthesized.
C8_SecondPassIsNoOp ==
    (Len(passes) >= 2 /\ ~passes[1].noop) => passes[2].noop

\* C9: in both copies of Process Audio Complete a recode is needed exactly
\* when recoding is enabled and the main track's codec is dts or dca.
C9_RecodeOnlyForMainDTS ==
    (analysis.done /\ HasAudio(probed)) =>
        \A k \in {"pacA", "pacB"} :
            analysis[k].needsDDP <=>
                (policy.createDDP /\ Lower(MainTrack(probed).codec) \in {"dts", "dca"})

\* C10: a downmix is needed exactly when downmixing is enabled, the main track
\* has more than two channels, and no stereo track exists whose language is
\* the configured default language or is absent or undetermined.
C10_DownmixForDefaultLanguage ==
    (analysis.done /\ HasAudio(probed)) =>
        (analysis.pacA.needsStereo <=>
            /\ policy.createStereo
            /\ MainTrack(probed).channels > 2
            /\ ~StereoInDefaultLanguage(probed, policy))

\* ======================================================================
\* Properties of the lock and of the replacement protocol
\* ======================================================================
Finished(w) == w \in active /\ pc[w] = "done"

\* the plugins that put their output at the original's path
Replacing == {"csd", "nat", "pacB"}

\* between a successful acquireLock and the release
Holding(w) == plug = "csd" /\ w \in active /\ hist[w].acquired /\ pc[w] # "done"

\* C1: two workers hold the lock of one target at the same time only when the
\* later one acquired it after the earlier one's marker had grown older than
\* the staleness threshold.
C1_MutualExclusion ==
    \A w \in active : \A v \in active :
        (w # v /\ Holding(w) /\ Holding(v) /\ hist[w].acqAt <= hist[v].acqAt)
            => hist[v].acqAt - hist[w].acqAt > StaleMs

VerificationFailed(w) ==
    \/ hist[w].ffres \in {"nonzero", "timeout"}
    \/ hist[w].ffres = "ok" /\ hist[w].produced = "small"
    \/ hist[w].ffres = "ok" /\ hist[w].produced = "wrong"
    \/ hist[w].reprobe \in {"exit", "parse"}

\* C3: a run whose transcoder exited non-zero or timed out, or whose output
\* failed the size check or the re-probe, made no rename, copy or delete on
\* the original path and answers 2 with the original reference.
C3_FailedOutputTouchesNothing ==
    \A w \in active :
        (Finished(w) /\ VerificationFailed(w)) =>
            /\ hist[w].inputOps = 0
            /\ input = "orig"
            /\ outputNumber[w] = 2
            /\ outputFile[w] = OrigRef

C3_SmallOutputRejected ==
    \E w \in active :
        /\ Finished(w) /\ plug \in Replacing
        /\ hist[w].ffres = "ok" /\ hist[w].produced = "small"
        /\ outputNumber[w] = 2 /\ hist[w].inputOps = 0

FreshAndHeld(v) ==
    /\ hist[v].sawLock.present
    /\ now - hist[v].sawLock.mtime <= StaleMs
    /\ hist[v].sawLock.owner \in active => ~hist[hist[v].sawLock.owner].released

\* C5: a worker that starts while a fresh marker exists, whose holder does not
\* release it, does not acquire the lock; it answers 2 with the original
\* reference, runs no transcoder and does nothing on the original path.
C5_FreshMarkerKeepsOthersOut ==
    \A v \in active :
        (plug = "csd" /\ pc[v] # "idle" /\ FreshAndHeld(v)) =>
            /\ ~hist[v].acquired
            /\ Finished(v) =>
                /\ outputNumber[v] = 2
                /\ outputFile[v] = OrigRef
                /\ hist[v].ffmpegRuns = 0
                /\ hist[v].inputOps = 0

\* C6: after a failed swap the restore is attempted exactly once; when the
\* restore fails too, the log holds a CRITICAL entry, the backup still exists
\* and no further swap or restore was attempted.
C6_FailedRestoreIsReported ==
    \A w \in active :
        (Finished(w) /\ plug \in Replacing /\ hist[w].swapFailed) =>
            /\ hist[w].restores = 1
            /\ hist[w].swaps = 1
            /\ hist[w].restoreFailed =>
                /\ "CRITICAL" \in jobLog[w]
                /\ backup[w] # "none"

\* ======================================================================
\* Properties of the plan: no-op, order, titles, dispositions
\* ======================================================================
\* the streams pass i read
PassInput(i) == IF i = 1 THEN probed ELSE passes[i - 1].produced

\* the decisions as the design states them, over the design's main track
NeedsRecode(sts, pol) ==
    pol.createDDP /\ Lower(MainTrack(sts).codec) \in {"dts", "dca"}

NeedsDownmix(sts, pol) ==
    /\ pol.createStereo
    /\ MainTrack(sts).channels > 2
    /\ ~StereoInDefaultLanguage(sts, pol)

\* the planned copies of the existing tracks, in planned order
Copies(out) == SelectSeq(out, IsOriginalTrack)

\* the existing tracks are already in the planned order
AlreadySorted(out) == \A n \in 1..Len(Copies(out)) : Copies(out)[n].source = n - 1

\* every existing track already carries the title planned for that same track
TitlesCanonical(sts, out) ==
    \A n \in 1..Len(Copies(out)) :
        AudioOf(sts)[Copies(out)[n].source + 1].title = Copies(out)[n].title

NoOpRequired(sts, pol, out) ==
    /\ ~NeedsRecode(sts, pol)
    /\ ~NeedsDownmix(sts, pol)
    /\ AlreadySorted(out)
    /\ TitlesCanonical(sts, out)

\* C11: in both copies of Process Audio Complete a pass over a file with audio
\* ends as a no-op exactly when no recode is needed, no downmix is needed, the
\* existing tracks are already in the planned order and every existing track
\* carries the title planned for that same source track.
C11_NoOpExactlyWhenNothingToChange ==
    \A i \in 1..Len(passes) :
        HasAudio(PassInput(i)) =>
            /\ passes[i].noop <=> NoOpRequired(PassInput(i), policy, passes[i].outputAudio)
            /\ passes[i].second.noop <=>
                   NoOpRequired(PassInput(i), policy, passes[i].second.outputAudio)

PlanEntries(sts, out) ==
    [p \in 1..Len(out) |->
        [language |-> out[p].language,
         title |-> out[p].title,
         synthesized |-> out[p].isNew,
         prior |-> IF out[p].isNew THEN "" ELSE AudioOf(sts)[out[p].source + 1].title]]

NatEntries(meta) ==
    [p \in 1..Len(meta) |->
        [language |-> meta[p].language,
         title |-> meta[p].title,
         synthesized |-> FALSE,
         prior |-> meta[p].originalTitle]]

CarriesOriginal(title) == Contains(title, "Original")

\* commentary, descriptive or director in the title, in any case
SecondaryMarker(title) ==
    \/ Contains(toLowerCase(title), "commentary")
    \/ Contains(toLowerCase(title), "descriptive")
    \/ Contains(toLowerCase(title), "director")

\* two-letter codes and three-letter aliases collapsed to one code
CanonicalLanguage(code) == normalizeLangCode(toLowerCase(code))

OriginalRule(es) ==
    /\ \A p \in 1..Len(es) : \A q \in 1..Len(es) :
           (p < q /\ CarriesOriginal(es[p].title) /\ CarriesOriginal(es[q].title))
               => CanonicalLanguage(es[p].language) # CanonicalLanguage(es[q].language)
    /\ \A p \in 1..Len(es) : es[p].synthesized => ~CarriesOriginal(es[p].title)
    /\ \A p \in 1..Len(es) : SecondaryMarker(es[p].prior) => ~CarriesOriginal(es[p].title)

\* C13: in every plan of Process Audio Complete and in the titles Normalize
\* Audio Titles computes, at most one track per language (two-letter codes
\* and aliases collapsed) is titled "Original", no synthesized track is, and
\* no track whose previous title holds commentary, descriptive or director is.
C13_OneOriginalPerLanguage ==
    /\ \A i \in 1..Len(passes) :
           OriginalRule(PlanEntries(PassInput(i), passes[i].outputAudio))
    /\ analysis.done => OriginalRule(NatEntries(analysis.nat.audioMetadata))

\* the rank of x in a priority list: its position, or after all listed ones
Rank(list, x) ==
    IF \E i \in 1..Len(list) : list[i] = x
    THEN CHOOSE i \in 1..Len(list) : list[i] = x
    ELSE Len(list) + 1

LanguageRank(track, pol) == Rank(pol.languagePriority, CanonicalLanguage(track.language))
CodecRank(track, pol) == Rank(pol.codecPriority, toLowerCase(track.originalCodec))

EqualRanks(a, b, pol) ==
    LanguageRank(a, pol) = LanguageRank(b, pol) /\ CodecRank(a, pol) = CodecRank(b, pol)

\* C14: in every plan of Process Audio Complete, two existing tracks with the
\* same language rank and the same codec rank come out in the order they had
\* in the input.
C14_SortIsStable ==
    \A i \in 1..Len(passes) :
        \A p \in 1..Len(Copies(passes[i].outputAudio)) :
            \A q \in 1..Len(Copies(passes[i].outputAudio)) :
                (p < q /\ EqualRanks(Copies(passes[i].outputAudio)[p],
                                     Copies(passes[i].outputAudio)[q], policy))
                    => Copies(passes[i].outputAudio)[p].source
                           < Copies(passes[i].outputAudio)[q].source

\* a pass that runs the transcoder over two distinct tracks of equal ranks
C14_EqualRanksKeptInOrder ==
    \E i \in 1..Len(passes) :
        /\ ~passes[i].noop
        /\ Len(Copies(passes[i].outputAudio)) = 2
        /\ EqualRanks(Copies(passes[i].outputAudio)[1], Copies(passes[i].outputAudio)[2], policy)
        /\ AudioOf(PassInput(i))[1] # AudioOf(PassInput(i))[2]
        /\ Copies(passes[i].outputAudio)[1].source = 0
        /\ Copies(passes[i].outputAudio)[2].source = 1

\* the shape of a plan over n existing tracks: a recode entry first exactly
\* when recode is set, then the n copies, each existing track once under its
\* own source, then a downmix entry last exactly when downmix is set
PlanShape(out, n, recode, downmix) ==
    LET first == IF recode THEN 2 ELSE 1
        last == first + n - 1
    IN  /\ Len(out) = n + (IF recode THEN 1 ELSE 0) + (IF downmix THEN 1 ELSE 0)
        /\ recode => (out[1].isNew /\ out[1].isDDP /\ out[1].codec = "eac3")
        /\ downmix => (out[Len(out)].isNew /\ out[Len(out)].isStereo
                          /\ out[Len(out)].codec = "aac")
        /\ \A p \in first..last : ~out[p].isNew /\ out[p].codec = "copy"
        /\ {out[p].source : p \in first..last} = 0..(n - 1)

\* C15: for every input with audio and every policy the plan of Process Audio
\* Complete is the recode entry first exactly when a recode is needed, then
\* each existing track once as a copy under its own source, then the downmix
\* entry last exactly when a downmix is needed, whatever the priority lists.
C15_SynthesizedEntriesFirstAndLast ==
    \A i \in 1..Len(passes) :
        HasAudio(PassInput(i)) =>
            PlanShape(passes[i].outputAudio, Len(AudioOf(PassInput(i))),
                      NeedsRecode(PassInput(i), policy), NeedsDownmix(PassInput(i), policy))

\* C16: the audio streams a pass of Process Audio Complete tells the
\* transcoder to write are flagged default at position 0 and nowhere else.
C16_FirstOutputIsTheOnlyDefault ==
    \A i \in 1..Len(passes) :
        (~passes[i].noop /\ Len(passes[i].outputAudio) > 0) =>
            /\ Len(AudioOf(passes[i].produced)) = Len(passes[i].outputAudio)
            /\ \A p \in 1..Len(AudioOf(passes[i].produced)) :
                   AudioOf(passes[i].produced)[p].def = (IF p = 1 THEN 1 ELSE 0)

\* a pass over two streams of which only the second was flagged default
C16_DefaultMovedToTheFront ==
    \E i \in 1..Len(passes) :
        /\ ~passes[i].noop
        /\ Len(AudioOf(PassInput(i))) = 2
        /\ AudioOf(PassInput(i))[1].def = 0
        /\ AudioOf(PassInput(i))[2].def = 1
        /\ Len(AudioOf(passes[i].produced)) >= 2
        /\ AudioOf(passes[i].produced)[1].def = 1
        /\ \A p \in 2..Len(AudioOf(passes[i].produced)) : AudioOf(passes[i].produced)[p].def = 0

\* a file whose only audio track is English DTS 5.1, under the policy recode
\* on, downmix on, languages eng,fre and codecs eac3,dts,aac
ScenarioA ==
    /\ Len(AudioOf(probed)) = 1
    /\ AudioOf(probed)[1].codec = "dts"
    /\ AudioOf(probed)[1].channels = 6
    /\ AudioOf(probed)[1].lang = "eng"
    /\ policy.createDDP
    /\ policy.createStereo
    /\ policy.languagePriority = <<"eng", "fre">>
    /\ policy.codecPriority = <<"eac3", "dts", "aac">>

\* C17: for the file and policy of scenario A the first pass plans exactly
\* three audio outputs: the synthesized eac3 recode "English - DD+ - 5.1",
\* flagged default, then the copy of the DTS track "English Original - DTS -
\* 5.1", then the synthesized aac stereo downmix "English - AAC - Stereo".
C17_ScenarioA ==
    (ScenarioA /\ Len(passes) >= 1) =>
        /\ ~passes[1].noop
        /\ Len(passes[1].outputAudio) = 3
        /\ passes[1].outputAudio[1].isNew
        /\ passes[1].outputAudio[1].codec = "eac3"
        /\ passes[1].outputAudio[1].title = "English - DD+ - 5.1"
        /\ ~passes[1].outputAudio[2].isNew
        /\ passes[1].outputAudio[2].codec = "copy"
        /\ passes[1].outputAudio[2].source = 0
        /\ passes[1].outputAudio[2].title = "English Original - DTS - 5.1"
        /\ passes[1].outputAudio[3].isNew
        /\ passes[1].outputAudio[3].codec = "aac"
        /\ passes[1].outputAudio[3].channels = 2
        /\ passes[1].outputAudio[3].title = "English - AAC - Stereo"
        /\ [p \in 1..3 |-> AudioOf(passes[1].produced)[p].def] = <<1, 0, 0>>
        /\ [p \in 1..3 |-> AudioOf(passes[1].produced)[p].codec] = <<"eac3", "dts", "aac">>
        /\ [p \in 1..3 |-> AudioOf(passes[1].produced)[p].lang] = <<"eng", "eng", "eng">>

C17_ScenarioAPlanned ==
    /\ ScenarioA
    /\ Len(passes) >= 1
    /\ Len(passes[1].outputAudio) = 3
    /\ passes[1].outputAudio[3].title = "English - AAC - Stereo"

\* two audio tracks of one language, the second with a previous title that
\* holds "Commentary", the first without a secondary-audio marker
ScenarioC(sts) ==
    /\ Len(AudioOf(sts)) = 2
    /\ AudioOf(sts)[1].lang # ""
    /\ CanonicalLanguage(AudioOf(sts)[1].lang) = CanonicalLanguage(AudioOf(sts)[2].lang)
    /\ ~SecondaryMarker(AudioOf(sts)[1].title)
    /\ Contains(AudioOf(sts)[2].title, "Commentary")

\* the title planned for the existing track with audio index src
PlannedTitle(out, src) ==
    LET p == CHOOSE p \in 1..Len(out) : ~out[p].isNew /\ out[p].source = src
    IN  out[p].title

\* the first title carries "Original", the second "Commentary" and no "Original"
OriginalThenCommentary(first, second) ==
    /\ CarriesOriginal(first)
    /\ Contains(second, "Commentary")
    /\ ~CarriesOriginal(second)

\* C18: for two tracks of one language of which the second was titled
\* "Commentary", Normalize Audio Titles and Process Audio Complete both title
\* the first one Original and the second one Commentary, not Original.
C18_CommentaryIsNotOriginal ==
    /\ (analysis.done /\ ScenarioC(probed)) =>
           OriginalThenCommentary(analysis.nat.audioMetadata[1].title,
                                  analysis.nat.audioMetadata[2].title)
    /\ (Len(passes) >= 1 /\ ScenarioC(probed)) =>
           OriginalThenCommentary(PlannedTitle(passes[1].outputAudio, 0),
                                  PlannedTitle(passes[1].outputAudio, 1))

\* a channel count that is present and not negative
ValidChannelCount(channels) == IsNumber(channels) /\ channels >= 0

\* C19: when the main track's channel count is absent or negative, Check Main
\* Audio Stream Channels answers 2 with the input reference, Create Stereo
\* Downmix leaves through its invalid-channel exit, and Process Audio Complete
\* puts no default in its place and ends its pass without running the
\* transcoder.
C19_InvalidChannelCountFails ==
    (analysis.done /\ HasAudio(probed) /\ ~ValidChannelCount(MainTrack(probed).channels)) =>
        /\ \A c \in validConditions :
               /\ analysis.check[<<c, "ok">>].outputNumber = 2
               /\ analysis.check[<<c, "ok">>].outputFile = OrigRef
        /\ analysis.csdCase = "badChannels"
        /\ analysis.pacA.mainAudioChannels = MainTrack(probed).channels
        /\ Len(passes) >= 1 => passes[1].noop

\* the channel count satisfies the condition: stereo = 2, multichannel > 2,
\* mono = 1
Satisfies(cond, channels) ==
    /\ IsNumber(channels)
    /\ \/ cond = "stereo" /\ channels = 2
       \/ cond = "multichannel" /\ channels > 2
       \/ cond = "mono" /\ channels = 1

\* C20: Check Main Audio Stream Channels answers 1 exactly when the condition
\* in effect (multichannel when none was chosen) is one of stereo,
\* multichannel and mono, probe data is there, the file has an audio stream
\* and the main track's channel count satisfies the condition; otherwise it
\* answers 2; in every case it returns the input file reference.
C20_CheckAnswersTheCondition ==
    analysis.done =>
        \A ci \in ConditionInputs \X ProbeData :
            /\ analysis.check[ci].outputFile = OrigRef
            /\ analysis.check[ci].outputNumber \in {1, 2}
            /\ analysis.check[ci].outputNumber = 1 <=>
                   /\ condition(ci[1]) \in {"stereo", "multichannel", "mono"}
                   /\ ci[2] = "ok"
                   /\ HasAudio(probed)
                   /\ Satisfies(condition(ci[1]), MainTrack(probed).channels)

\* a stereo stream followed by the flagged 5.1 main track: multichannel
\* matches, stereo and mono do not, and nothing matches without probe data
C20_MultichannelMainBehindStereo ==
    /\ analysis.done
    /\ Len(AudioOf(probed)) = 2
    /\ AudioOf(probed)[1].channels = 2 /\ AudioOf(probed)[1].def = 0
    /\ AudioOf(probed)[2].channels = 6 /\ AudioOf(probed)[2].def = 1
    /\ analysis.check[<<"multichannel", "ok">>].outputNumber = 1
    /\ analysis.check[<<"stereo", "ok">>].outputNumber = 2
    /\ analysis.check[<<"mono", "ok">>].outputNumber = 2
    /\ analysis.check[<<"surround", "ok">>].outputNumber = 2
    /\ analysis.check[<<"multichannel", "missing">>].outputNumber = 2

\* ---------------------------------------------------------------------- C21
\* C21: when Create Stereo Downmix builds its command, the audio outputs are
\* every input audio track in input order with codec copy and no option of
\* its own, followed by exactly one new output at audio index = number of
\* input audio tracks, which alone carries the encoder, bitrate, 2-channel,
\* disposition 0 and title options.
C21_DownmixIsAddedAfterTheOriginals ==
    (analysis.done /\ analysis.csdCase = "process") =>
        LET out == analysis.csdCommand
            n == Len(AudioOf(probed))
        IN  /\ Len(out) = n + 1
            /\ \A k \in 1..n :
                 /\ out[k].from = k - 1
                 /\ ~out[k].filtered
                 /\ out[k].codec = "copy"
                 /\ out[k].options = {}
            /\ out[n + 1].filtered
            /\ out[n + 1].codec = "encoder"
            /\ out[n + 1].options = csdSpecified

\* two input tracks, the second is the one mixed down
C21_TwoOriginalsKept ==
    /\ analysis.done
    /\ analysis.csdCase = "process"
    /\ Len(AudioOf(probed)) = 2
    /\ Len(analysis.csdCommand) = 3
    /\ analysis.csdCommand[3].from = 1

\* ---------------------------------------------------------------------- C22
\* a language tag that names a language
ValidTag(tag) == tag # "" /\ toLowerCase(tag) \notin {"und", "unk"}

\* the language a track is to be written with: its own valid tag, else the
\* first valid tag in stream order, else the default language
LanguageToWrite(aud, i, defaultLanguage) ==
    LET valid == {j \in 1..Len(aud) : ValidTag(aud[j].lang)}
    IN  IF ValidTag(aud[i].lang) THEN aud[i].lang
        ELSE IF valid # {} THEN aud[CHOOSE j \in valid : \A k \in valid : j <= k].lang
        ELSE defaultLanguage

NormalizeReturned == call.fn = "normalizeTitles" /\ call.done

\* C22: the language Normalize Audio Titles writes for each audio track is
\* the track's own tag when valid, else the first valid tag in stream order,
\* else the default language, and it is never empty or undetermined.
C22_WrittenLanguageIsNeverUndetermined ==
    (NormalizeReturned /\ call.ret.early = 0) =>
        LET aud == AudioOf(call.args.streams)
            meta == call.ret.audioMetadata
        IN  /\ Len(meta) = Len(aud)
            /\ \A i \in 1..Len(aud) :
                 /\ meta[i].index = i - 1
                 /\ meta[i].language = LanguageToWrite(aud, i, call.args.defaultLanguage)
                 /\ ValidTag(meta[i].language)

\* an untagged track and an undetermined one ahead of the first valid tag
C22_InheritedFromALaterTrack ==
    /\ NormalizeReturned
    /\ call.ret.early = 0
    /\ Len(call.args.streams) = 3
    /\ call.args.streams[1].lang = ""
    /\ call.args.streams[2].lang = "UND"
    /\ call.args.streams[3].lang = "fra"
    /\ call.ret.audioMetadata[1].language = "fra"
    /\ call.ret.audioMetadata[2].language = "fra"

\* ---------------------------------------------------------------------- C23
\* the worker is at the backup rename, at the swap or behind them
Replacing_Steps == {"backup", "swap", "copy", "rmbackup", "restore"}

\* the lock marker at the target is the worker's own
HoldsMarker(w) == hist[w].acquired /\ lock.present /\ lock.owner = w

\* C23: in every replacing plugin a worker runs the transcoder only after it
\* acquired the lock, verifies only after the transcoder ran, and is at the
\* backup rename or the swap only after the verification of a complete
\* output and while it holds the lock marker of the target.
C23_ReplaceOnlyUnderTheLock ==
    \A w \in active :
        plug \in Replacing =>
            /\ hist[w].ffmpegRuns > 0 => hist[w].acquired
            /\ pc[w] = "verify" => hist[w].ffmpegRuns > 0
            /\ pc[w] \in Replacing_Steps =>
                 /\ hist[w].ffmpegRuns > 0
                 /\ hist[w].ffres = "ok"
                 /\ HoldsMarker(w)

\* ---------------------------------------------------------------------- C24
\* the workers whose backup file of the target exists
LiveBackups == {w \in Workers : backup[w] # "none"}

\* C24: across the workers on one target at most one backup file of the
\* target exists at any time, and once a run has returned its backup file
\* exists only if its restore failed.
C24_OneLiveBackup ==
    /\ Cardinality(LiveBackups) <= 1
    /\ \A w \in active :
         (Finished(w) /\ backup[w] # "none") => hist[w].restoreFailed

\* ---------------------------------------------------------------------- C25
VerifyReturned == call.fn = "verifyOutput" /\ call.done

\* twice the lower bound on the output size, in bytes
TwiceLowerBound(a) ==
    LET twiceMB == 2 * OneMB
        estimate == a.duration * a.bitrate * 128
        tenth == a.inputSize \div 10
    IN  IF a.duration # Absent /\ a.duration > 0
        THEN (IF estimate > twiceMB THEN estimate ELSE twiceMB)
        ELSE (IF tenth > twiceMB THEN tenth ELSE twiceMB)

LastIsStereoAac(streams) ==
    /\ streams # <<>>
    /\ streams[Len(streams)] = [channels |-> 2, codec_name |-> "aac"]

\* C25: createStereoDownmix goes on to the backup and the swap only if the
\* output is at least as large as the lower bound (half of duration x
\* bitrate when a positive duration is known, else a twentieth of the input
\* size, and never below 1 MB) and the last audio stream of the re-probed
\* output has 2 channels and codec aac; a failed or unparsable re-probe
\* never leads to the swap.
C25_SwapOnlyAfterSizeAndReprobe ==
    VerifyReturned =>
        LET a == call.args
        IN  /\ call.ret = "replace" =>
                 /\ 2 * a.outputSize >= TwiceLowerBound(a)
                 /\ a.status = 0
                 /\ a.stdout.parses
                 /\ LastIsStereoAac(a.stdout.streams)
            /\ (a.status # 0 \/ ~a.stdout.parses) => call.ret = "cleanup"

\* an output exactly at the duration-derived bound whose last stream is the
\* new stereo track is accepted
C25_AcceptedAtTheBound ==
    /\ VerifyReturned
    /\ call.ret = "replace"
    /\ call.args.duration = 100
    /\ call.args.bitrate = 192
    /\ call.args.outputSize = 1228800
    /\ Len(call.args.stdout.streams) = 2

\* ---------------------------------------------------------------------- C26
ProcessReturned == call.fn = "processAudio" /\ call.done

\* the synthesized entries of a plan and its filter graph take their source,
\* channel count, language and mix from audio stream m (0-based)
SynthesizedFrom(sts, ret, m) ==
    LET main == AudioStreams("pacA", sts)[m + 1]
        out == ret.outputAudio
    IN  /\ \A k \in 1..Len(out) :
             /\ out[k].isDDP =>
                  /\ out[k].source = m
                  /\ out[k].channels = main.channels
                  /\ out[k].language = main.normLang
             /\ out[k].isStereo => out[k].language = main.normLang
        /\ ret.analysis.needsStereo =>
             \A normalize \in BOOLEAN :
                /\ ret.filterComplex[normalize].from = m
                /\ Head(ret.filterComplex[normalize].stages) = getPanFilter(main.channels)

\* C26: whenever Process Audio Complete synthesizes a recode or a downmix
\* entry over a stream list whose main track is not the first audio stream,
\* the entry's source (the recode's input, the filter graph's input), its
\* channel count, its language and its mix are the main track's.
C26_SynthesizedFromTheMainTrack ==
    ProcessReturned =>
        LET sts == call.args.streams
        IN  (HasAudio(sts) /\ MainTrackIndex(sts) > 0) =>
                SynthesizedFrom(sts, call.ret, MainTrackIndex(sts))

\* ---------------------------------------------------------------------- C27
\* C27: in the plan of Process Audio Complete the existing tracks are in
\* non-decreasing order of language rank (the index of the normalized
\* language in the language priority list, every unlisted language after
\* all listed ones) and, within one language rank, in non-decreasing order
\* of codec rank under the same rule.
C27_CopiesOrderedByLanguageThenCodec ==
    ProcessReturned =>
        LET copies == Copies(call.ret.outputAudio)
            pol == call.args.policy
        IN  \A p \in 1..Len(copies) : \A q \in 1..Len(copies) :
                p < q =>
                    \/ LanguageRank(copies[p], pol) < LanguageRank(copies[q], pol)
                    \/ /\ LanguageRank(copies[p], pol) = LanguageRank(copies[q], pol)
                       /\ CodecRank(copies[p], pol) <= CodecRank(copies[q], pol)

\* three tracks put in the reverse of their input order: an unlisted
\* language last, and ahead of it two tracks of one language by codec
C27_ReorderedByBothRanks ==
    /\ ProcessReturned
    /\ Len(Copies(call.ret.outputAudio)) = 3
    /\ Copies(call.ret.outputAudio)[1].source = 2
    /\ Copies(call.ret.outputAudio)[2].source = 1
    /\ Copies(call.ret.outputAudio)[3].source = 0
    /\ LanguageRank(Copies(call.ret.outputAudio)[3], call.args.policy)
           = Len(call.args.policy.languagePriority) + 1
    /\ LanguageRank(Copies(call.ret.outputAudio)[1], call.args.policy)
           = LanguageRank(Copies(call.ret.outputAudio)[2], call.args.policy)
    /\ CodecRank(Copies(call.ret.outputAudio)[1], call.args.policy)
           < CodecRank(Copies(call.ret.outputAudio)[2], call.args.policy)

\* ---------------------------------------------------------------------- C28
\* the language a tag denotes: two-letter code, bibliographic code and
\* terminology alias of one language, whatever the case
LanguageOf(code) ==
    LET c == toLowerCase(code)
    IN  CASE c \in {"fr", "fre", "fra"} -> "French"
          [] c \in {"de", "ger", "deu"} -> "German"
          [] c \in {"en", "eng"} -> "English"
          [] c \in {"el", "gre", "ell"} -> "Greek"
          [] OTHER -> c

LanguageKeyReturned == call.fn = "languageKey" /\ call.done

\* C28: in every plugin two tags that denote the same language get the same
\* canonical code, and the code of a canonical code is that code again.
C28_OneCodePerLanguage ==
    LanguageKeyReturned =>
        /\ \A d \in LangCodes :
             LanguageOf(d) = LanguageOf(call.args.code)
                 => languageKey(call.args.plugin, d) = call.ret
        /\ languageKey(call.args.plugin, call.ret) = call.ret

\* ---------------------------------------------------------------------- C29
PanReturned == call.fn = "getPanFilter" /\ call.done

\* the mixes with their own weights for the surround channels
WeightedMixes == {"mix71", "mix61", "mix51"}

\* C29: the downmix filter fragment follows from the channel count alone: a
\* weighted mix of its own for 8 channels, another for 7, another for 6, the
\* centre-blend mix for 3, 4 and 5 channels, and the plain stereo reformat
\* for 2 channels and for 1.
C29_FilterByChannelCount ==
    PanReturned =>
        LET ch == call.args.channels
        IN  /\ ch = 8 => call.ret = "mix71"
            /\ ch = 7 => call.ret \in WeightedMixes \ {"mix71", "mix51"}
            /\ ch = 6 => call.ret = "mix51"
            /\ ch \in 3..5 => call.ret = "centre"
            /\ ch \in 1..2 => call.ret = "aformat"

\* ---------------------------------------------------------------------- C30
ChainReturned == call.fn = "filterChain" /\ call.done

Mixes == {"mix71", "mix61", "mix51", "quad", "centre", "aformat"}

InputsReturned == call.fn = "parseInputs" /\ call.done

\* the values the inputs offer: loudness targets in LUFS, timeouts in minutes
AcceptedLoudness == -24..-14
AcceptedTimeoutMs == {m * 60 * 1000 : m \in 30..180}

\* C31: whatever is typed into the bitrate, loudness-target, timeout and
\* condition inputs, the plugin works with a value inside the accepted range
\* or rejects the input; the bitrate handed to the transcoder for the
\* downmix track lies within 64..512 kbps.
C31_InputsClampedOrRejected ==
    InputsReturned =>
        \/ call.ret.rejected
        \/ /\ call.args.plugin = "chk" => condition(call.args.condition) \in validConditions
           /\ call.args.plugin \in {"csd", "pacA"} =>
                /\ call.ret.bitrate \in 64..512
                /\ call.ret.loudnormTarget \in AcceptedLoudness
           /\ call.args.plugin = "csd" => call.ret.timeoutMs \in AcceptedTimeoutMs

\* ---------------------------------------------------------------- C32
Occurrences(str, sub) ==
    Cardinality({i \in 1..(Len(str) - Len(sub) + 1) : SubSeq(str, i, i + Len(sub) - 1) = sub})

EndsWith(str, suffix) ==
    /\ Len(str) >= Len(suffix)
    /\ SubSeq(str, Len(str) - Len(suffix) + 1, Len(str)) = suffix

\* a stream whose codec label and whose channel label would both name Atmos
ObjectAudio(codec, profile) ==
    \/ codec = "eac3" /\ profile = "Dolby Digital Plus + JOC"
    \/ codec = "truehd" /\ profile = "Dolby TrueHD + Dolby Atmos"

NumericLayout(channels) == IF channels = 8 THEN "7.1" ELSE "5.1"

\* the title names Atmos once, in its codec label, and ends with the layout
\* of the channel count
NamedOnce(title, channels) ==
    /\ Occurrences(title, "Atmos") = 1
    /\ EndsWith(title, " Atmos - " \o NumericLayout(channels))

C33_DeletesOnlyStaleMarkers ==
    [][\A w \in Workers :
          /\ (AcqUnlink(w) /\ lock.present) => IsStale(lock, now)
          /\ AcqUnlink(w) => (pc'[w] = "acq_try" /\ now' = now)
          /\ (AcqStat(w) /\ lock.present /\ ~IsStale(lock, now)) =>
                (pc'[w] = "acq_sleep" /\ lock' = lock)
          /\ (AcqStat(w) /\ lock.present /\ IsStale(lock, now)) => pc'[w] = "acq_unlink"
          /\ AcqSleep(w) => (lock' = lock /\ pc'[w] = "acq_try")]_vars

\* ---------------------------------------------------------------- C34
\* C34: a worker of Create Stereo Downmix that returns removes the marker at
\* the lock path only if it created that marker: its cleanup and its final
\* release do not delete a marker that another worker created.
C34_ReleaseOnlyOwnMarker ==
    [][\A w \in Workers :
          (plug = "csd" /\ pc[w] # "done" /\ pc'[w] = "done"
              /\ lock.present /\ ~lock'.present) => lock.owner = w]_vars

\* ---------------------------------------------------------------- C35
\* the transcoder runs under the marker until it ends or is killed at the
\* timeout (lines 453-459): a live worker holds its marker at least that long
LongestTranscodeMs(ret) == ret.timeoutMs

\* C35: for every timeout the dropdown of Create Stereo Downmix offers (30,
\* 60, 120, 180 minutes) the longest time a live worker holds its marker is
\* shorter than the two-hour staleness threshold.
C35_HoldShorterThanStaleness ==
    (InputsReturned /\ call.args.plugin = "csd" /\ call.args.timeout \in TimeoutOptions)
        => LongestTranscodeMs(call.ret) < StaleMs

\* ---------------------------------------------------------------- C36
\* the file content that the stream data of the analysis describe: the
\* plugin reads args.inputFileObj.ffProbeData (lines 337-342), which was
\* captured before the plugin was called
AnalysedContent(w) == hist[w].sawInput

\* C36: when a worker of Create Stereo Downmix runs its analysis under the
\* lock, the stream data it decides from describe the file as it is at that
\* moment, not the file as it was before the worker waited for the lock.
C36_AnalysisOfTheFileAsItIs ==
    \A w \in active :
        (plug = "csd" /\ pc[w] = "probe" /\ hist[w].acquired)
            => AnalysedContent(w) = input

\* ---------------------------------------------------------------- C37
NormalizeTwiceReturned == call.fn = "normalizeTwice" /\ call.done

\* C37: a second run of Normalize Audio Titles on the file its first run
\* wrote finds every title correct and answers without a remux, also for
\* tracks titled as commentary, descriptive or director's tracks.
C37_SecondRunFindsTitlesCorrect ==
    (NormalizeTwiceReturned /\ call.ret.first.early = 0) =>
        /\ call.ret.second.early = 1
        /\ \A k \in 1..Len(call.ret.left) :
              call.ret.second.audioMetadata[k].title = call.ret.left[k].title

\* ---------------------------------------------------------------- C38
DownmixTwiceReturned == call.fn = "downmixTwice" /\ call.done

\* the 2-channel AAC streams the plugin added
AddedStereo(auds) == {k \in 1..Len(auds) : auds[k].title = "Stereo" /\ auds[k].channels = 2}

\* C38: a second run of Create Stereo Downmix on the file its first run
\* wrote ends at the skip exit: it builds no command, and the file keeps the
\* one stereo track the first run added.
C38_SecondRunAddsNoSecondDownmix ==
    (DownmixTwiceReturned /\ call.ret.first # <<>>) =>
        /\ call.ret.secondCase = "stereo"
        /\ call.ret.second = <<>>
        /\ Cardinality(AddedStereo(call.ret.left)) = 1

\* ---------------------------------------------------------------- C39
\* C39: every call of acquireLock returns, provided the clock advances,
\* whatever other processes do to the marker meanwhile (create and delete it
\* again and again, leave a stale marker whose deletion keeps failing, remove
\* it between the failed create and the stat); and a create that fails for
\* another reason than 'already exists' makes the call return false at once.
C39_AcquireLockReturns ==
    /\ \A w \in Workers : Acquiring(w) ~> ~Acquiring(w)
    /\ [][\A w \in Workers :
             (pc[w] = "acq_try" /\ faultsLeft' < faultsLeft) =>
                 (pc'[w] = "done" /\ outputNumber'[w] = 2 /\ ~hist'[w].acquired)]_vars

\* a call gave up at the timeout while a stale marker lay at the lock path
C39_GaveUpOnAStaleMarker ==
    /\ pc[1] = "done"
    /\ hist[1].cause = "lockTimeout"
    /\ now - start[1] >= LockTimeoutMs
    /\ lock.present
    /\ IsStale(lock, now)

====
